---- MODULE Spec2Model ----
(***************************************************************************)
(* Store dashboard: CSV ingestion (growth and absolute metrics imports).   *)
(*                                                                         *)
(* The two import handlers are modelled step by step, one action per STEP  *)
(* of the handler.  The hosted database is a set of tables; a call whose   *)
(* error the handler inspects (upload_history insert, stores insert,       *)
(* metrics upsert) may succeed or fail, a call whose result is used        *)
(* unchecked (stores select, stores update, upload_history update) acts.   *)
(*                                                                         *)
(* Strings are sequences of character codes, so that toLowerCase, trim,    *)
(* substring, includes, replace and the parsers are computed.  A JS number *)
(* n is the integer n * Scale (five decimals, exact for the cells used).   *)
(*                                                                         *)
(* Spec is a sequence of imports, one after another, over several days;    *)
(* SpecFile is one import of any file of the row table, under any header   *)
(* row, into an empty database or one that already holds a store.          *)
(* SpecCell is one growth cell written by the import and read back by the  *)
(* stores endpoint.  SpecDetect is the wizard's format detection on any     *)
(* header row, SpecWizard the wizard's steps and requests.  SpecGeocode is *)
(* a sequence of geocoding runs over a small stores table, SpecSelect the  *)
(* dry run over tables around the smart-mode threshold.  SpecBatches is    *)
(* batch-mode runs repeated for ever.  SpecColumns resolves the columns of *)
(* any header row, SpecRead is one read of the stores endpoint, SpecAuth   *)
(* the three kinds of request under every authorization, SpecPair two      *)
(* imports of one account at the same time, SpecDash the map dashboard     *)
(* with its timeline filter.                                               *)
(***************************************************************************)
EXTENDS Integers, Sequences, FiniteSets, TLC

VARIABLES
  clock,             \* the server's date (new Date()), a day number
  stores,            \* table stores of the account: set of rows
  growth_metrics,    \* table growth_metrics: sequence of rows
  absolute_metrics,  \* table absolute_metrics: sequence of rows
  upload_history,    \* table upload_history: sequence of rows
  req,               \* the import request being handled and its locals
  resp,              \* the response of the last finished request
  prev,              \* what the last finished request submitted
  fault,             \* the storage error the current/last request met
  runs,              \* number of requests received
  conv,              \* a growth cell on its way from the file to the map
  wizard,            \* the upload wizard: its React state and its requests
  geo,               \* the geocoding run: the stores' addresses and
                     \* coordinates, the handler's locals, its response
  cols,              \* a header row and the column indices resolved for it
  read,              \* the stores endpoint: the tables it reads, its query
                     \* and its response
  pair,              \* two ingestions of the same account at the same time
  dash               \* the map dashboard and its timeline filter

vars == <<clock, stores, growth_metrics, absolute_metrics, upload_history,
          req, resp, prev, fault, runs, conv, wizard, geo,
          cols, read, pair, dash>>

tables == <<stores, growth_metrics, absolute_metrics, upload_history>>

\* the state of the two import handlers, and the state outside them
importVars == <<clock, stores, growth_metrics, absolute_metrics,
                upload_history, req, resp, prev, fault, runs>>

views == <<cols, read, pair, dash>>

others == <<conv, wizard, geo, views>>

-----------------------------------------------------------------------------
(* Bounds of the model *)

MaxRuns == 2

MaxDate == 2

MaxRows == 1

MaxFileRows == 3

-----------------------------------------------------------------------------
(* Values *)

\* A JS number-or-null is a sequence: << >> for null (and NaN), <<n>> for n
Null == << >>

Num(n) == <<n>>

Val(v) == v[1]

Scale == 10 ^ 5

Min(S) == CHOOSE x \in S : \A y \in S : x <= y

Range(s) == { s[i] : i \in 1..Len(s) }

-----------------------------------------------------------------------------
(* String primitives of the JS runtime.  A string is the sequence of its
   character codes: 32 is the blank, 48-57 the digits, 65-90 and 97-122 the
   upper-case and lower-case letters. *)

IsDigit(c) == 48 <= c /\ c <= 57

DigitVal(c) == c - 48

LowerChar(c) == IF 65 <= c /\ c <= 90 THEN c + 32 ELSE c

toLowerCase(s) == [i \in 1..Len(s) |-> LowerChar(s[i])]

IsSpace(c) == c = 32

trim(s) ==
  LET keep == { i \in 1..Len(s) : ~IsSpace(s[i]) }
  IN  IF keep = {} THEN << >>
      ELSE SubSeq(s, Min(keep), CHOOSE i \in keep : \A j \in keep : j <= i)

\* s.substring(0, n)
substring(s, n) == SubSeq(s, 1, IF Len(s) < n THEN Len(s) ELSE n)

\* s.includes(t)
includes(s, t) ==
  \E i \in 0..(Len(s) - Len(t)) : SubSeq(s, i + 1, i + Len(t)) = t

\* s.replace(c, r) with a string pattern: the first occurrence only
replaceFirst(s, c, r) ==
  LET hits == { i \in 1..Len(s) : s[i] = c }
  IN  IF hits = {} THEN s
      ELSE SubSeq(s, 1, Min(hits) - 1) \o r \o SubSeq(s, Min(hits) + 1, Len(s))

\* s.replace(/c/g, '')
removeAll(s, c) == SelectSeq(s, LAMBDA x : x # c)

\* the number of leading digits of s, and their value
DigitsLen(s) ==
  Min({ i \in 1..Len(s) : ~IsDigit(s[i]) } \cup {Len(s) + 1}) - 1

DigitsValue(s) ==
  LET n == DigitsLen(s)
      v[i \in 0..n] == IF i = 0 THEN 0 ELSE v[i - 1] * 10 + DigitVal(s[i])
  IN  v[n]

\* the first five decimals of a run of digits, as an integer below Scale
FractionValue(s) ==
  LET n == DigitsLen(s)
      d(i) == IF i <= n THEN DigitVal(s[i]) ELSE 0
  IN  d(1) * 10000 + d(2) * 1000 + d(3) * 100 + d(4) * 10 + d(5)

\* parseFloat(s): leading blanks, a sign (45 '-', 43 '+'), digits, a point
\* (46), digits; the rest
\* of the string is ignored; NaN (here Null) when no digit is read.
parseFloat(str) ==
  LET s0   == trim(str)
      neg  == s0 # << >> /\ Head(s0) = 45
      s1   == IF s0 # << >> /\ Head(s0) \in {45, 43} THEN Tail(s0) ELSE s0
      n    == DigitsLen(s1)
      rest == SubSeq(s1, n + 1, Len(s1))
      frac == IF rest # << >> /\ Head(rest) = 46 THEN Tail(rest) ELSE << >>
      m    == DigitsLen(frac)
      mag  == DigitsValue(s1) * Scale + FractionValue(frac)
  IN  IF n = 0 /\ m = 0 THEN Null
      ELSE IF neg THEN Num(0 - mag) ELSE Num(mag)

\* parseInt(s): leading blanks, a sign, digits; NaN (here Null) when no digit is read.
parseInt(str) ==
  LET s0  == trim(str)
      neg == s0 # << >> /\ Head(s0) = 45
      s1  == IF s0 # << >> /\ Head(s0) \in {45, 43} THEN Tail(s0) ELSE s0
      mag == DigitsValue(s1) * Scale
  IN  IF DigitsLen(s1) = 0 THEN Null
      ELSE IF neg THEN Num(0 - mag) ELSE Num(mag)

-----------------------------------------------------------------------------
(* Column resolution: the search terms of each target field *)

TermsFormato ==
  { <<102, 111, 114, 109, 97, 116, 111>> }  \* 'formato'

TermsSucSap ==
  { <<115, 117, 99>>,  \* 'suc'
    <<115, 97, 112>> }  \* 'sap'

TermsSucursal ==
  { <<115, 117, 99, 117, 114, 115, 97, 108>> }  \* 'sucursal'

TermsEstado ==
  { <<101, 115, 116, 97, 100, 111>> }  \* 'estado'

TermsRevenueGrowth ==
  { <<36, 32, 99, 114, 101, 99, 37>>,  \* '$ crec%'
    <<99, 114, 101, 99, 37, 32, 109, 116>>,  \* 'crec% mt'
    <<114, 101, 118, 101, 110, 117, 101>>,  \* 'revenue'
    <<118, 101, 110, 116, 97, 115, 32, 99, 114, 101, 99>>,  \* 'ventas crec'
    <<99, 114, 101, 99, 105, 109, 105, 101, 110, 116, 111, 32, 118, 101, 110, 116, 97, 115>>,  \* 'crecimiento ventas'
    <<99, 114, 101, 99, 32, 118, 101, 110, 116, 97, 115>>,  \* 'crec ventas'
    <<103, 114, 111, 119, 116, 104, 32, 114, 101, 118, 101, 110, 117, 101>>,  \* 'growth revenue'
    <<36, 32, 103, 114, 111, 119, 116, 104>> }  \* '$ growth'

TermsOrdersGrowth ==
  { <<111, 114, 100, 101, 110, 101, 115, 32, 99, 114, 101, 99, 37>>,  \* 'ordenes crec%'
    <<111, 114, 100, 101, 114, 115, 32, 99, 114, 101, 99, 37>>,  \* 'orders crec%'
    <<99, 114, 101, 99, 37, 32, 111, 114, 100, 101, 110, 101, 115>>,  \* 'crec% ordenes'
    <<111, 114, 100, 101, 114, 115, 32, 103, 114, 111, 119, 116, 104>>,  \* 'orders growth'
    <<99, 114, 101, 99, 105, 109, 105, 101, 110, 116, 111, 32, 111, 114, 100, 101, 110, 101, 115>>,  \* 'crecimiento ordenes'
    <<99, 114, 101, 99, 32, 111, 114, 100, 101, 110, 101, 115>> }  \* 'crec ordenes'

TermsTicketGrowth ==
  { <<116, 105, 99, 107, 101, 116, 32, 99, 114, 101, 99, 37>>,  \* 'ticket crec%'
    <<99, 114, 101, 99, 37, 32, 116, 105, 99, 107, 101, 116>>,  \* 'crec% ticket'
    <<116, 105, 99, 107, 101, 116, 32, 103, 114, 111, 119, 116, 104>>,  \* 'ticket growth'
    <<99, 114, 101, 99, 105, 109, 105, 101, 110, 116, 111, 32, 116, 105, 99, 107, 101, 116>>,  \* 'crecimiento ticket'
    <<99, 114, 101, 99, 32, 116, 105, 99, 107, 101, 116>>,  \* 'crec ticket'
    <<116, 105, 99, 107, 101, 116, 32, 112, 114, 111, 109, 101, 100, 105, 111>> }  \* 'ticket promedio'

TermsVentas ==
  { <<118, 101, 110, 116, 97, 115>>,  \* 'ventas'
    <<115, 97, 108, 101, 115>> }  \* 'sales'

TermsOrdenes ==
  { <<111, 114, 100, 101, 110, 101, 115>>,  \* 'ordenes'
    <<111, 114, 100, 101, 114, 115>> }  \* 'orders'

TermsTickets ==
  { <<116, 105, 99, 107, 101, 116, 115>>,  \* 'tickets'
    <<116, 105, 99, 107, 101, 116>> }  \* 'ticket'

-----------------------------------------------------------------------------
(* The submitted files.  A request names its header row and its data rows by
   their index in these tables.  Header rows 1-2 are growth files (with and
   without a year-comparison label), 3 is an absolute file, 4-7 each lack a
   required column (estado; store code and name; formato; sucursal). *)

HeaderTable ==
  << << <<83, 65, 80>>,  \* 'SAP'
        <<70, 111, 114, 109, 97, 116, 111>>,  \* 'Formato'
        <<69, 115, 116, 97, 100, 111>>,  \* 'Estado'
        <<83, 117, 99, 117, 114, 115, 97, 108>>,  \* 'Sucursal'
        <<36, 32, 67, 114, 101, 99, 37, 32, 50, 48, 50, 52, 32, 118, 115, 32, 50, 48, 50, 51>> >>,  \* '$ Crec% 2024 vs 2023'
     << <<83, 65, 80>>,  \* 'SAP'
        <<70, 111, 114, 109, 97, 116, 111>>,  \* 'Formato'
        <<69, 115, 116, 97, 100, 111>>,  \* 'Estado'
        <<83, 117, 99, 117, 114, 115, 97, 108>>,  \* 'Sucursal'
        <<82, 101, 118, 101, 110, 117, 101>> >>,  \* 'Revenue'
     << <<83, 65, 80>>,  \* 'SAP'
        <<70, 111, 114, 109, 97, 116, 111>>,  \* 'Formato'
        <<69, 115, 116, 97, 100, 111>>,  \* 'Estado'
        <<83, 117, 99, 117, 114, 115, 97, 108>>,  \* 'Sucursal'
        <<86, 101, 110, 116, 97, 115>> >>,  \* 'Ventas'
     << <<83, 65, 80>>,  \* 'SAP'
        <<70, 111, 114, 109, 97, 116, 111>>,  \* 'Formato'
        <<83, 117, 99, 117, 114, 115, 97, 108>>,  \* 'Sucursal'
        <<86, 101, 110, 116, 97, 115>> >>,  \* 'Ventas'
     << <<70, 111, 114, 109, 97, 116, 111>>,  \* 'Formato'
        <<69, 115, 116, 97, 100, 111>>,  \* 'Estado'
        <<86, 101, 110, 116, 97, 115>> >>,  \* 'Ventas'
     << <<83, 65, 80>>,  \* 'SAP'
        <<69, 115, 116, 97, 100, 111>>,  \* 'Estado'
        <<83, 117, 99, 117, 114, 115, 97, 108>>,  \* 'Sucursal'
        <<86, 101, 110, 116, 97, 115>> >>,  \* 'Ventas'
     << <<83, 65, 80>>,  \* 'SAP'
        <<70, 111, 114, 109, 97, 116, 111>>,  \* 'Formato'
        <<69, 115, 116, 97, 100, 111>>,  \* 'Estado'
        <<86, 101, 110, 116, 97, 115>> >> >>  \* 'Ventas'

\* Data rows, cells in the column order of header rows 1-3: store code,
\* formato, estado, sucursal, KPI.  1-3 are complete (2 repeats the code of 1,
\* padded), 4 has no cells, 5 has a blank store code, 6 an empty formato,
\* 7 stops before estado, 8 has an empty KPI cell.
RowTable ==
  << << <<65>>, <<88>>, <<69>>, <<83>>, <<49, 53, 46, 55, 37>> >>,  \* 'A', 'X', 'E', 'S', '15.7%'
     << <<32, 65, 32>>, <<88>>, <<69>>, <<83>>, <<45, 51, 44, 53>> >>,  \* ' A ', 'X', 'E', 'S', '-3,5'
     << <<66>>, <<88>>, <<69>>, <<83>>, <<53>> >>,  \* 'B', 'X', 'E', 'S', '5'
     <<  >>,
     << <<32, 32>>, <<88>>, <<69>>, <<83>>, <<53>> >>,  \* '  ', 'X', 'E', 'S', '5'
     << <<65>>, << >>, <<69>>, <<83>>, <<53>> >>,  \* 'A', 'E', 'S', '5'
     << <<66>>, <<88>> >>,  \* 'B', 'X'
     << <<66>>, <<88>>, <<69>>, <<83>>, << >> >> >>  \* 'B', 'X', 'E', 'S'

DefaultYearComparison == <<50, 48, 50, 53, 32, 118, 115, 32, 50, 48, 50, 52>>  \* '2025 vs 2024'

-----------------------------------------------------------------------------
(* Column resolution *)

\* searchTerms.some(term => h.includes(term.toLowerCase()))
matchesAny(h, searchTerms) ==
  \E t \in searchTerms : includes(h, toLowerCase(t))

\* faulty variant: a header matches when it is one of the terms
getColumnIndexWhole(headers, searchTerms) ==
  LET hits == { i \in 1..Len(headers) :
                  \E t \in searchTerms :
                    trim(toLowerCase(headers[i])) = toLowerCase(t) }
  IN  IF hits = {} THEN -1 ELSE Min(hits) - 1

\* headers.findIndex(h => searchTerms.some(t => h.toLowerCase().trim()
\* .includes(t.toLowerCase()))): the lowest 0-based index, or -1
getColumnIndex(headers, searchTerms) ==
  LET hits == { i \in 1..Len(headers) :
                  matchesAny(trim(toLowerCase(headers[i])), searchTerms) }
  IN  IF hits = {} THEN -1 ELSE Min(hits) - 1

\* the absolute import's variant does not trim the header
getColumnIndexAbs(headers, searchTerms) ==
  LET hits == { i \in 1..Len(headers) :
                  matchesAny(toLowerCase(headers[i]), searchTerms) }
  IN  IF hits = {} THEN -1 ELSE Min(hits) - 1

columnIndicesGrowth(headers) ==
  [ formato        |-> getColumnIndex(headers, TermsFormato),
    suc_sap        |-> getColumnIndex(headers, TermsSucSap),
    sucursal       |-> getColumnIndex(headers, TermsSucursal),
    estado         |-> getColumnIndex(headers, TermsEstado),
    revenue_growth |-> getColumnIndex(headers, TermsRevenueGrowth),
    orders_growth  |-> getColumnIndex(headers, TermsOrdersGrowth),
    ticket_growth  |-> getColumnIndex(headers, TermsTicketGrowth) ]

columnIndicesAbsolute(headers) ==
  [ formato  |-> getColumnIndexAbs(headers, TermsFormato),
    suc_sap  |-> getColumnIndexAbs(headers, TermsSucSap),
    sucursal |-> getColumnIndexAbs(headers, TermsSucursal),
    estado   |-> getColumnIndexAbs(headers, TermsEstado),
    ventas   |-> getColumnIndexAbs(headers, TermsVentas),
    ordenes  |-> getColumnIndexAbs(headers, TermsOrdenes),
    tickets  |-> getColumnIndexAbs(headers, TermsTickets) ]

columnIndices(kind, headers) ==
  IF kind = "growth" THEN columnIndicesGrowth(headers)
  ELSE columnIndicesAbsolute(headers)

\* the indices each endpoint resolves for each header row
ColumnIndicesOf ==
  [ kind \in {"growth", "absolute"} |->
      [ hdr \in 1..Len(HeaderTable) |-> columnIndices(kind, HeaderTable[hdr]) ] ]

\* faulty variant: sucursal is not required
requiredColumnsNoSucursal == {"suc_sap", "formato", "estado"}

requiredColumns == {"suc_sap", "formato", "estado", "sucursal"}

missingColumns(ci) == { col \in requiredColumns : ci[col] = -1 }

growthMetricsFound(ci) ==
  Cardinality({ f \in {"revenue_growth", "orders_growth", "ticket_growth"} :
                  ci[f] # -1 })

\* the first header holding 'vs' or 'V', matched against
\* /\d{4}.*vs.*\d{4}/i; the default label when there is no match
FourDigitsAt(s, i) ==
  i >= 1 /\ i + 3 <= Len(s) /\ \A d \in 0..3 : IsDigit(s[i + d])

VsAt(s, j) ==
  j >= 1 /\ j + 1 <= Len(s)
  /\ LowerChar(s[j]) = 118 /\ LowerChar(s[j + 1]) = 115

\* the leftmost match, as long as the greedy .* make it: from the first
\* year that a 'vs' and a year follow, to the last year a 'vs' precedes
yearMatchIn(s, years, vss) ==
  LET ok(i, k) == \E j \in vss : i + 4 <= j /\ j + 2 <= k
      starts == { i \in years : \E k \in years : ok(i, k) }
  IN  IF starts = {} THEN << >>
      ELSE SubSeq(s, Min(starts),
                  3 + CHOOSE k \in years :
                        /\ ok(Min(starts), k)
                        /\ \A y \in years : ok(Min(starts), y) => y <= k)

yearMatch(s) ==
  yearMatchIn(s, { i \in 1..Len(s) : FourDigitsAt(s, i) },
                 { j \in 1..Len(s) : VsAt(s, j) })

yearComparison(headers) ==
  LET found == { i \in 1..Len(headers) :
                   includes(headers[i], <<118, 115>>)  \* 'vs'
                   \/ includes(headers[i], <<86>>) }  \* 'V'
  IN  IF found = {} THEN DefaultYearComparison
      ELSE LET m == yearMatch(headers[Min(found)])
           IN  IF m = << >> THEN DefaultYearComparison ELSE m


-----------------------------------------------------------------------------
(* Row normalisation *)

MaxLenCode == 50

\* row[index] || '' : an index of -1 or past the row's end reads undefined
Cell(row, index) ==
  IF index >= 0 /\ index < Len(row) THEN row[index + 1] ELSE << >>

safeTruncate(value, maxLength) ==
  IF value = << >> THEN << >> ELSE substring(trim(value), maxLength)

\* decimal fraction of a percentage cell, or null
parsePercentage(value) ==
  IF value = << >> \/ trim(value) = << >> THEN Null
  ELSE LET cleaned == trim(replaceFirst(replaceFirst(value, 37, << >>), 44, <<46>>))
           parsed  == parseFloat(cleaned)
       IN  IF parsed = Null THEN Null ELSE Num(Val(parsed) \div 100)

parseNumber(value) ==
  IF value = << >> \/ trim(value) = << >> THEN Null
  ELSE LET parsed == parseFloat(trim(removeAll(value, 44)))
       IN  parsed

parseInteger(value) ==
  IF value = << >> \/ trim(value) = << >> THEN Null
  ELSE LET parsed == parseInt(trim(removeAll(value, 44)))
       IN  parsed

storeDataOf(ci, row) ==
  [ suc_sap  |-> safeTruncate(Cell(row, ci.suc_sap), MaxLenCode),
    formato  |-> safeTruncate(Cell(row, ci.formato), MaxLenCode),
    estado   |-> safeTruncate(Cell(row, ci.estado), MaxLenCode) ]

metricsDataGrowth(ci, row, yc) ==
  [ revenue_growth_pct |-> IF ci.revenue_growth # -1
                           THEN parsePercentage(Cell(row, ci.revenue_growth)) ELSE Null,
    orders_growth_pct  |-> IF ci.orders_growth # -1
                           THEN parsePercentage(Cell(row, ci.orders_growth)) ELSE Null,
    ticket_growth_pct  |-> IF ci.ticket_growth # -1
                           THEN parsePercentage(Cell(row, ci.ticket_growth)) ELSE Null,
    year_comparison    |-> yc ]

metricsDataAbsolute(ci, row) ==
  [ ventas  |-> IF ci.ventas # -1 THEN parseNumber(Cell(row, ci.ventas)) ELSE Null,
    ordenes |-> IF ci.ordenes # -1 THEN parseInteger(Cell(row, ci.ordenes)) ELSE Null,
    tickets |-> IF ci.tickets # -1 THEN parseInteger(Cell(row, ci.tickets)) ELSE Null ]

-----------------------------------------------------------------------------
(* STEP 2: the row loop *)

Err(type, row) == [type |-> type, row |-> row]

\* faulty variant: only the store code is required
missingOnlyCode(storeData) == storeData.suc_sap = << >>

\* if (!storeData.suc_sap || !storeData.formato || !storeData.estado)
missingRequiredFields(storeData) ==
  storeData.suc_sap = << >> \/ storeData.formato = << >> \/ storeData.estado = << >>

\* faulty variant: no duplicate check
isDuplicateNever(csvSapCodes, suc_sap) == FALSE

\* csvSapCodes.includes(storeData.suc_sap)
isDuplicateInCsv(csvSapCodes, suc_sap) == suc_sap \in Range(csvSapCodes)

\* faulty variant: every accepted code is taken for a new store
isNewStoreAlways(existingStoreMap, suc_sap) == TRUE

\* !existingStoreMap.has(storeData.suc_sap)
isNewStore(existingStoreMap, suc_sap) == suc_sap \notin DOMAIN existingStoreMap

newStoreRecord(storeData, currentDate) ==
  [ suc_sap    |-> storeData.suc_sap,
    format     |-> storeData.formato,
    estado     |-> storeData.estado,
    first_seen |-> currentDate,
    last_seen  |-> currentDate ]

EmptyAcc == [ errors |-> << >>, csvSapCodes |-> << >>, newStores |-> << >>,
              allProcessedRows |-> << >> ]

\* the part of an iteration after storeData and metricsData are built
processCells(existingStoreMap, currentDate, acc, i, storeData, metricsData) ==
  IF missingRequiredFields(storeData)
  THEN [acc EXCEPT !.errors = Append(@, Err("missing_fields", i + 1))]
  ELSE IF isDuplicateInCsv(acc.csvSapCodes, storeData.suc_sap)
  THEN [acc EXCEPT !.errors = Append(@, Err("duplicate_sap", i + 1))]
  ELSE [ errors      |-> acc.errors,
         csvSapCodes |-> Append(acc.csvSapCodes, storeData.suc_sap),
         newStores   |->
           IF isNewStore(existingStoreMap, storeData.suc_sap)
           THEN Append(acc.newStores, newStoreRecord(storeData, currentDate))
           ELSE acc.newStores,
         allProcessedRows |->
           Append(acc.allProcessedRows,
                  [ storeData |-> storeData, metricsData |-> metricsData,
                    rowIndex |-> i ]) ]

metricsDataOf(kind, ci, row, yc) ==
  IF kind = "growth" THEN metricsDataGrowth(ci, row, yc)
  ELSE metricsDataAbsolute(ci, row)

\* one iteration of the loop, for the row at 0-based index i
processRow(kind, ci, yc, existingStoreMap, currentDate, acc, i, row) ==
  IF row = << >> THEN acc
  ELSE processCells(existingStoreMap, currentDate, acc, i,
                    storeDataOf(ci, row), metricsDataOf(kind, ci, row, yc))

\* for (let i = 0; i < rows.length; i++)
processRowsWith(kind, ci, yc, existingStoreMap, currentDate, rows) ==
  LET acc[n \in 0..Len(rows)] ==
        IF n = 0 THEN EmptyAcc
        ELSE processRow(kind, ci, yc, existingStoreMap, currentDate,
                        acc[n - 1], n - 1, RowTable[rows[n]])
  IN  acc[Len(rows)]

\* yearComparison is computed once, before the loop
processRows(kind, hdr, ci, existingStoreMap, currentDate, rows) ==
  processRowsWith(kind, ci, yearComparison(HeaderTable[hdr]), existingStoreMap,
                  currentDate, rows)

-----------------------------------------------------------------------------
(* The storage layer *)

StoreCodes(tbl) == { s.suc_sap : s \in tbl }

StoreIds(tbl) == { s.id : s \in tbl }

\* select('suc_sap, id') folded into a Map: one id per code
StoreMaps(tbl) ==
  { m \in [StoreCodes(tbl) -> StoreIds(tbl)] :
      \A c \in StoreCodes(tbl) : \E s \in tbl : s.suc_sap = c /\ s.id = m[c] }

NextStoreId(tbl) ==
  IF tbl = {} THEN 1
  ELSE 1 + (CHOOSE i \in StoreIds(tbl) : \A j \in StoreIds(tbl) : j <= i)

\* faulty variant: a row whose code the table holds is left out
insertedRowsNotHeld(tbl, newStores) ==
  LET fresh == SelectSeq(newStores, LAMBDA n : n.suc_sap \notin StoreCodes(tbl))
  IN  [ i \in 1..Len(fresh) |->
          [ id         |-> NextStoreId(tbl) + i - 1,
            suc_sap    |-> fresh[i].suc_sap,
            format     |-> fresh[i].format,
            estado     |-> fresh[i].estado,
            first_seen |-> fresh[i].first_seen,
            last_seen  |-> fresh[i].last_seen ] ]

\* insert(newStores).select('id, suc_sap'): the rows as stored, in order
insertedRows(tbl, newStores) ==
  [ i \in 1..Len(newStores) |->
      [ id         |-> NextStoreId(tbl) + i - 1,
        suc_sap    |-> newStores[i].suc_sap,
        format     |-> newStores[i].format,
        estado     |-> newStores[i].estado,
        first_seen |-> newStores[i].first_seen,
        last_seen  |-> newStores[i].last_seen ] ]

\* update({last_seen}).eq('user_id', ...).in('suc_sap', codes)
updateLastSeen(tbl, codes, currentDate) ==
  { IF s.suc_sap \in codes THEN [s EXCEPT !.last_seen = currentDate] ELSE s :
      s \in tbl }

\* the columns named by onConflict
GrowthKey(r) == <<r.store_id, r.period, r.year_comparison>>

AbsoluteKey(r) == <<r.store_id, r.period>>

ConflictKey(kind, r) == IF kind = "growth" THEN GrowthKey(r) ELSE AbsoluteKey(r)

\* faulty variant: a plain INSERT, without ON CONFLICT
upsertOneAppend(kind, tbl, r) == Append(tbl, r)

\* faulty variant: the table is emptied before the row is written
upsertOneReplace(kind, tbl, r) == <<r>>

\* INSERT ... ON CONFLICT (key) DO UPDATE, for one row
upsertOne(kind, tbl, r) ==
  IF \E i \in 1..Len(tbl) : ConflictKey(kind, tbl[i]) = ConflictKey(kind, r)
  THEN [ i \in 1..Len(tbl) |->
           IF ConflictKey(kind, tbl[i]) = ConflictKey(kind, r) THEN r ELSE tbl[i] ]
  ELSE Append(tbl, r)

upsertAll(kind, tbl, rows) ==
  LET t[n \in 0..Len(rows)] ==
        IF n = 0 THEN tbl ELSE upsertOne(kind, t[n - 1], rows[n])
  IN  t[Len(rows)]

\* upsert(allMetrics, { onConflict: 'store_id,period,year_comparison' })
upsertGrowth(tbl, allMetrics) == upsertAll("growth", tbl, allMetrics)

\* upsert(allMetrics, { onConflict: 'store_id,period' })
upsertAbsolute(tbl, allMetrics) == upsertAll("absolute", tbl, allMetrics)

-----------------------------------------------------------------------------
(* Values the database client and the JS runtime hand around outside the
   import handlers *)

\* a JS value: null, a number (an integer number of 1/Scale) or a string
JsNull == [type |-> "null"]

JsNumber(n) == [type |-> "number", n |-> n]

JsString(s) == [type |-> "string", s |-> s]

\* the token verified only when the header is missing
rejectedNoHeader(auth) == auth = "none"

\* if (!authHeader) ...; if (authError || !user) ...: the request is
\* answered 401
rejected(auth) == auth # "valid"

\* no cell is on its way
NoConversion ==
  [pc |-> "none", cell |-> << >>, stored |-> Null, raw |-> JsNull,
   result |-> Null]

\* useState<DetectedFormat | null>(null)
NoFormat ==
  [type |-> "none", confidence |-> 0, description |-> "", kpiColumns |-> << >>]

\* the wizard as mounted: useState(1), useState(null), useState(false), ...
WizardMounted ==
  [step |-> 1, hasData |-> FALSE, headers |-> << >>,
   detectedFormat |-> NoFormat,
   loading |-> FALSE, error |-> "", pending |-> << >>, status |-> 0]

\* no geocoding run yet, over an empty stores table
GeoIdle ==
  [stores |-> << >>, pc |-> "idle", auth |-> "", mode |-> "", batchSize |-> 0,
   dryRun |-> FALSE, storesToGeocode |-> << >>, processStores |-> << >>,
   i |-> 0, results |-> << >>, errors |-> << >>, successCount |-> 0,
   geocodeResult |-> [success |-> FALSE, lat |-> 0, lon |-> 0,
                      error |-> "No results found"],
   answer |-> [kind |-> "none", lat |-> 0, lon |-> 0],
   calls |-> 0, slept |-> FALSE, called |-> {},
   before |-> << >>,
   resp |-> [status |-> 0, kind |-> "none", processed |-> 0, successful |-> 0,
             failed |-> 0, remaining |-> 0, total |-> 0, willProcess |-> 0,
             results |-> << >>, errors |-> << >>, isComplete |-> FALSE]]

\* no header row has been sent
ColsIdle ==
  [pc |-> "idle", kind |-> "none", headers |-> << >>,
   columnIndices |-> << >>, missing |-> {}]

\* no response of the stores endpoint yet
NoReadResponse == [status |-> 0, stores |-> << >>, total |-> 0]

\* no read request yet, over empty tables
ReadIdle ==
  [stores |-> << >>, growth_metrics |-> << >>, pc |-> "idle", auth |-> "",
   estado |-> "", period |-> 0, queried |-> {}, resp |-> NoReadResponse]

\* an ingestion that has not arrived
IngestionIdle ==
  [pc |-> "idle", kind |-> "none", hdr |-> 0, rows |-> << >>,
   existingStoreMap |-> << >>, csvSapCodes |-> << >>, newStores |-> << >>,
   status |-> 0]

\* no ingestion under way, over an empty stores table
PairIdle == [stores |-> {}, p |-> <<IngestionIdle, IngestionIdle>>]

\* the dashboard is not mounted
DashIdle ==
  [ metricType |-> "growth", selectedPeriod |-> Null,
    availablePeriods |-> << >>, stores |-> << >>,
    loading |-> TRUE, error |-> FALSE,
    isLoadingRef |-> FALSE, lastLoadParamsRef |-> << >>,
    inflight |-> << >>, deps |-> << >>, timeline |-> << >>,
    last |-> "none", chosen |-> "nothing" ]

ViewsIdle ==
  /\ cols = ColsIdle
  /\ read = ReadIdle
  /\ pair = PairIdle
  /\ dash = DashIdle

OthersIdle ==
  /\ conv = NoConversion
  /\ wizard = WizardMounted
  /\ geo = GeoIdle
  /\ ViewsIdle

-----------------------------------------------------------------------------
(* STEPS 5-6: the complete store map and the metric rows *)

\* existing stores first, then the inserted ones (a later set() wins)
completeStoreMap(existingStoreMap, insertedStores) ==
  LET ins == { insertedStores[i].suc_sap : i \in 1..Len(insertedStores) }
  IN  [ c \in (DOMAIN existingStoreMap) \cup ins |->
          IF c \in ins
          THEN LET hit == { i \in 1..Len(insertedStores) : insertedStores[i].suc_sap = c }
               IN  insertedStores[CHOOSE i \in hit : \A j \in hit : j <= i].id
          ELSE existingStoreMap[c] ]

hasAnyKpi(kind, m) ==
  IF kind = "growth"
  THEN m.revenue_growth_pct # Null \/ m.orders_growth_pct # Null \/ m.ticket_growth_pct # Null
  ELSE m.ventas # Null \/ m.ordenes # Null \/ m.tickets # Null

metricRow(kind, storeId, currentDate, m) ==
  IF kind = "growth"
  THEN [ store_id |-> storeId, period |-> currentDate,
         revenue_growth_pct |-> m.revenue_growth_pct,
         orders_growth_pct  |-> m.orders_growth_pct,
         ticket_growth_pct  |-> m.ticket_growth_pct,
         year_comparison    |-> m.year_comparison ]
  ELSE [ store_id |-> storeId, period |-> currentDate,
         ventas |-> m.ventas, ordenes |-> m.ordenes, tickets |-> m.tickets ]

\* allProcessedRows.forEach(...): the metric rows and the errors it adds
prepareMetrics(kind, storeMap, currentDate, processed) ==
  LET out[n \in 0..Len(processed)] ==
        IF n = 0 THEN [ allMetrics |-> << >>, errors |-> << >> ]
        ELSE LET p == processed[n]
             IN  IF p.storeData.suc_sap \notin DOMAIN storeMap
                 THEN [out[n - 1] EXCEPT
                         !.errors = Append(@, Err("no_store_id", p.rowIndex + 1))]
                 ELSE IF hasAnyKpi(kind, p.metricsData)
                 THEN [out[n - 1] EXCEPT
                         !.allMetrics =
                           Append(@, metricRow(kind, storeMap[p.storeData.suc_sap],
                                               currentDate, p.metricsData))]
                 ELSE out[n - 1]
  IN  out[Len(processed)]

-----------------------------------------------------------------------------
(* Requests and responses *)

ErrorLimit == 10

Idle ==
  [ pc |-> "idle", auth |-> "", kind |-> "none", hdr |-> 0,
    columnIndices |-> << >>, rows |-> << >>,
    currentDate |-> 0, uploadRecord |-> 0, existingStoreMap |-> << >>,
    errors |-> << >>, csvSapCodes |-> << >>, newStores |-> << >>,
    allProcessedRows |-> << >>, insertedStores |-> << >>, touched |-> {},
    metricsProcessed |-> 0 ]

NoAnalytics ==
  [ stores_processed |-> 0, new_stores |-> 0, existing_stores |-> 0,
    metrics_imported |-> 0 ]

NoResponse ==
  [ status |-> 0, success |-> FALSE, error |-> "", analytics |-> NoAnalytics,
    errors |-> << >>, totalErrors |-> 0 ]

\* NextResponse.json({ error }, { status })
ErrorResponse(status, error) ==
  [ status |-> status, success |-> FALSE, error |-> error,
    analytics |-> NoAnalytics, errors |-> << >>, totalErrors |-> 0 ]

\* faulty variant: existing_stores counts the whole snapshot
analyticsOfSnapshot(r) ==
  [ stores_processed |-> Len(r.csvSapCodes),
    new_stores       |-> Len(r.newStores),
    existing_stores  |-> Cardinality(DOMAIN r.existingStoreMap),
    metrics_imported |-> r.metricsProcessed ]

analyticsOf(r) ==
  [ stores_processed |-> Len(r.csvSapCodes),
    new_stores       |-> Len(r.newStores),
    existing_stores  |-> Len(r.csvSapCodes) - Len(r.newStores),
    metrics_imported |-> r.metricsProcessed ]

\* errors.slice(0, 10)
firstErrors(errors) ==
  SubSeq(errors, 1, IF Len(errors) < ErrorLimit THEN Len(errors) ELSE ErrorLimit)

SuccessResponse(r) ==
  [ status |-> 200, success |-> TRUE, error |-> "",
    analytics |-> analyticsOf(r),
    errors |-> firstErrors(r.errors), totalErrors |-> Len(r.errors) ]

Submitted(kind, hdr, rows, date, completed) ==
  [ kind |-> kind, hdr |-> hdr, rows |-> rows, date |-> date,
    completed |-> completed, auth |-> "valid" ]

Files(rowIds, maxLen) == UNION { [1..k -> rowIds] : k \in 0..maxLen }

Kinds == {"growth", "absolute"}

\* the header rows each endpoint is sent: 0 stands for a body without csvData
HeadersSent(kind) ==
  IF kind = "growth" THEN 0..Len(HeaderTable) ELSE {0} \cup 3..Len(HeaderTable)

SeqRowIds == {1, 3}

AllRowIds == 1..Len(RowTable)

-----------------------------------------------------------------------------
(* The import handlers, POST /api/import/growth-metrics and
   POST /api/import/absolute-metrics *)

Init ==
  /\ clock = 1
  /\ stores = {}
  /\ growth_metrics = << >>
  /\ absolute_metrics = << >>
  /\ upload_history = << >>
  /\ req = Idle
  /\ resp = NoResponse
  /\ prev = Submitted("none", 0, << >>, 0, FALSE)
  /\ fault = {}
  /\ runs = 0
  /\ OthersIdle

\* a request answered before its rows are read
Reject(kind, hdr, status, error) ==
  /\ resp' = ErrorResponse(status, error)
  /\ prev' = Submitted(kind, hdr, << >>, 0, FALSE)
  /\ UNCHANGED <<tables, req>>

\* if (!authHeader), if (authError || !user): 401
Refuse(kind, auth, error) ==
  /\ resp' = ErrorResponse(401, error)
  /\ prev' = [Submitted(kind, 0, << >>, 0, FALSE) EXCEPT !.auth = auth]
  /\ UNCHANGED <<tables, req>>

\* the upload_history insert, whose error is only logged
Accept(kind, hdr, ci, rows, uploadError) ==
  /\ upload_history' =
       IF uploadError THEN upload_history
       ELSE Append(upload_history,
                   [format_type |-> kind, analytics |-> NoAnalytics,
                    final |-> FALSE])
  /\ req' = [Idle EXCEPT !.pc = "step1", !.auth = "valid",
                         !.kind = kind, !.hdr = hdr,
                         !.columnIndices = ci,
                         !.rows = rows, !.currentDate = clock,
                         !.uploadRecord =
                           IF uploadError THEN 0 ELSE Len(upload_history) + 1]
  /\ UNCHANGED <<stores, growth_metrics, absolute_metrics, resp, prev>>

\* the column validation, on the indices resolved once per request
CheckColumns(kind, hdr, ci, files, uploadErrors) ==
  IF missingColumns(ci) # {}
  THEN Reject(kind, hdr, 400, "Columnas requeridas faltantes")
  ELSE IF kind = "growth" /\ growthMetricsFound(ci) = 0
  THEN Reject(kind, hdr, 400, "No se encontraron columnas de metricas")
  ELSE \E rows \in files, uploadError \in uploadErrors :
         Accept(kind, hdr, ci, rows, uploadError)

\* authorization, body and column validation, upload_history insert, for a
\* request whose rows are one of files
Start(kind, auth, hdr, files, uploadErrors) ==
  /\ req.pc = "idle"
  /\ runs' = runs + 1
  /\ fault' = {}
  /\ UNCHANGED <<clock, others>>
  /\ IF auth = "none" THEN Refuse(kind, auth, "No autorizado")
     ELSE IF auth = "invalid" THEN Refuse(kind, auth, "Usuario no valido")
     ELSE IF hdr = 0 THEN Reject(kind, 0, 400, "Datos CSV invalidos")
     ELSE CheckColumns(kind, hdr, ColumnIndicesOf[kind][hdr], files, uploadErrors)

\* STEP 1 and STEP 2: the existing-store snapshot and the row loop
Step1ReadAndProcess ==
  /\ UNCHANGED others
  /\ req.pc = "step1"
  /\ \E m \in StoreMaps(stores) :
       LET acc == processRows(req.kind, req.hdr, req.columnIndices, m,
                              req.currentDate, req.rows)
       IN  req' = [req EXCEPT !.pc = "step3", !.existingStoreMap = m,
                              !.errors = acc.errors,
                              !.csvSapCodes = acc.csvSapCodes,
                              !.newStores = acc.newStores,
                              !.allProcessedRows = acc.allProcessedRows]
  /\ UNCHANGED <<clock, tables, resp, prev, fault, runs>>

\* the absolute import's pre-insert validation of newStores
invalidStores(newStores) ==
  { i \in 1..Len(newStores) :
      newStores[i].suc_sap = << >> \/ newStores[i].format = << >>
      \/ newStores[i].estado = << >> }

\* faulty variant of STEP 3: an insert error is only recorded
Step3InsertStoresGoOn ==
  /\ UNCHANGED others
  /\ req.pc = "step3"
  /\ UNCHANGED <<clock, growth_metrics, absolute_metrics, upload_history, runs,
                 resp, prev>>
  /\ IF req.newStores = << >>
     THEN /\ req' = [req EXCEPT !.pc = "step4"]
          /\ UNCHANGED <<stores, fault>>
     ELSE \E insertError \in BOOLEAN :
            IF insertError
            THEN /\ fault' = fault \cup {"insert"}
                 /\ req' = [req EXCEPT !.pc = "step4"]
                 /\ UNCHANGED stores
            ELSE LET data == insertedRows(stores, req.newStores)
                 IN  /\ stores' = stores \cup Range(data)
                     /\ req' = [req EXCEPT !.pc = "step4",
                                  !.insertedStores =
                                    [ i \in 1..Len(data) |->
                                        [id |-> data[i].id, suc_sap |-> data[i].suc_sap] ]]
                     /\ UNCHANGED fault

\* STEP 3: one bulk insert of the new stores; an error ends the request
Step3InsertStores ==
  /\ UNCHANGED others
  /\ req.pc = "step3"
  /\ UNCHANGED <<clock, growth_metrics, absolute_metrics, upload_history, runs>>
  /\ IF req.newStores = << >>
     THEN /\ req' = [req EXCEPT !.pc = "step4"]
          /\ UNCHANGED <<stores, resp, prev, fault>>
     ELSE IF req.kind = "absolute" /\ invalidStores(req.newStores) # {}
     THEN /\ resp' = ErrorResponse(400, "Invalid store data detected")
          /\ prev' = Submitted(req.kind, req.hdr, req.rows, req.currentDate, FALSE)
          /\ req' = Idle
          /\ UNCHANGED <<stores, fault>>
     ELSE \E insertError \in BOOLEAN :
            IF insertError
            THEN /\ fault' = fault \cup {"insert"}
                 /\ resp' = ErrorResponse(500, "Error al insertar tiendas")
                 /\ prev' = Submitted(req.kind, req.hdr, req.rows, req.currentDate, FALSE)
                 /\ req' = Idle
                 /\ UNCHANGED stores
            ELSE LET data == insertedRows(stores, req.newStores)
                 IN  /\ stores' = stores \cup Range(data)
                     /\ req' = [req EXCEPT !.pc = "step4",
                                  !.insertedStores =
                                    [ i \in 1..Len(data) |->
                                        [id |-> data[i].id, suc_sap |-> data[i].suc_sap] ]]
                     /\ UNCHANGED <<resp, prev, fault>>

\* the codes of this file found in the snapshot
existingCsvSapCodes(r) ==
  IF r.kind = "growth"
  THEN { r.allProcessedRows[i].storeData.suc_sap :
           i \in { j \in 1..Len(r.allProcessedRows) :
                     r.allProcessedRows[j].storeData.suc_sap
                       \in DOMAIN r.existingStoreMap } }
  ELSE { c \in Range(r.csvSapCodes) : c \in DOMAIN r.existingStoreMap }

\* what STEP 4 writes: the absolute import updates last_seen of the existing
\* stores; the growth import builds existingStoreUpdates and sends nothing
touchExisting(kind, tbl, codes, currentDate) ==
  IF kind = "absolute" /\ codes # {}
  THEN updateLastSeen(tbl, codes, currentDate)
  ELSE tbl

Step4TouchExisting ==
  /\ UNCHANGED others
  /\ req.pc = "step4"
  /\ stores' = touchExisting(req.kind, stores, existingCsvSapCodes(req), req.currentDate)
  /\ req' = [req EXCEPT !.pc = "step7", !.touched = existingCsvSapCodes(req)]
  /\ UNCHANGED <<clock, growth_metrics, absolute_metrics, upload_history,
                 resp, prev, fault, runs>>

allMetricsOf(r) ==
  prepareMetrics(r.kind, completeStoreMap(r.existingStoreMap, r.insertedStores),
                 r.currentDate, r.allProcessedRows)

\* STEPS 5-7: the metric rows and their one bulk upsert; an error is pushed
\* to errors and the handler goes on
Step7UpsertMetrics ==
  /\ UNCHANGED others
  /\ req.pc = "step7"
  /\ UNCHANGED <<clock, stores, upload_history, resp, prev, runs>>
  /\ LET prep == allMetricsOf(req)
     IN  IF prep.allMetrics = << >>
         THEN /\ req' = [req EXCEPT !.pc = "step8", !.errors = @ \o prep.errors]
              /\ UNCHANGED <<growth_metrics, absolute_metrics, fault>>
         ELSE \E metricsError \in BOOLEAN :
                IF metricsError
                THEN /\ fault' = fault \cup {"upsert"}
                     /\ req' = [req EXCEPT !.pc = "step8",
                                  !.errors = Append(@ \o prep.errors,
                                                    Err("metrics_error", 0))]
                     /\ UNCHANGED <<growth_metrics, absolute_metrics>>
                ELSE /\ growth_metrics' =
                          IF req.kind = "growth"
                          THEN upsertGrowth(growth_metrics, prep.allMetrics)
                          ELSE growth_metrics
                     /\ absolute_metrics' =
                          IF req.kind = "absolute"
                          THEN upsertAbsolute(absolute_metrics, prep.allMetrics)
                          ELSE absolute_metrics
                     /\ req' = [req EXCEPT !.pc = "step8",
                                  !.errors = @ \o prep.errors,
                                  !.metricsProcessed = Len(prep.allMetrics)]
                     /\ UNCHANGED fault

\* STEP 8: the analytics go to the upload_history row and to the response
Step8Respond ==
  /\ UNCHANGED others
  /\ req.pc = "step8"
  /\ upload_history' =
       IF req.uploadRecord # 0
       THEN [upload_history EXCEPT ![req.uploadRecord] =
               [@ EXCEPT !.analytics = analyticsOf(req), !.final = TRUE]]
       ELSE upload_history
  /\ resp' = SuccessResponse(req)
  /\ prev' = Submitted(req.kind, req.hdr, req.rows, req.currentDate, fault = {})
  /\ req' = Idle
  /\ UNCHANGED <<clock, stores, growth_metrics, absolute_metrics, fault, runs>>

\* the date changes; a handler reads it once, on arrival (currentDate), so a
\* change while a request is handled is the same as one right after it
Tick ==
  /\ UNCHANGED others
  /\ req.pc = "idle"
  /\ clock < MaxDate
  /\ clock' = clock + 1
  /\ UNCHANGED <<tables, req, resp, prev, fault, runs>>

\* the header rows sent in a sequence of requests: a growth file, an absolute
\* file, a file without the sucursal column
SeqHeaders(kind) == IF kind = "growth" THEN {1, 7} ELSE {3, 7}

\* a request arrives: one after another, at most MaxRuns of them, each with a
\* file of at most MaxRows rows
Receive ==
  /\ runs < MaxRuns
  /\ \E kind \in Kinds :
       \/ Start(kind, "none", 0, {}, {})
       \/ \E hdr \in SeqHeaders(kind) :
            Start(kind, "valid", hdr, Files(SeqRowIds, MaxRows), {FALSE})

Next ==
  \/ Receive
  \/ Step1ReadAndProcess
  \/ Step3InsertStores
  \/ Step4TouchExisting
  \/ Step7UpsertMetrics
  \/ Step8Respond
  \/ Tick

Spec == Init /\ [][Next]_vars

-----------------------------------------------------------------------------
(* One request with any header row and any file of at most MaxFileRows rows,
   sent on day 1 to an empty database, or on day 2 to a database that holds
   store A, first imported on day 1 by the growth import of the one-row file
   <<1>> under header row 1 *)

SeedRun ==
  processRows("growth", 1, columnIndices("growth", HeaderTable[1]), << >>, 1, <<1>>)

SeedStores == Range(insertedRows({}, SeedRun.newStores))

SeedMetrics ==
  prepareMetrics("growth", completeStoreMap(<< >>, insertedRows({}, SeedRun.newStores)),
                 1, SeedRun.allProcessedRows).allMetrics

SeedHistory ==
  << [ format_type |-> "growth", final |-> TRUE,
       analytics |-> [ stores_processed |-> 1, new_stores |-> 1,
                       existing_stores |-> 0, metrics_imported |-> 1 ] ] >>

InitFile ==
  /\ \/ /\ clock = 1
        /\ stores = {}
        /\ growth_metrics = << >>
        /\ upload_history = << >>
     \/ /\ clock = 2
        /\ stores = SeedStores
        /\ growth_metrics = SeedMetrics
        /\ upload_history = SeedHistory
  /\ absolute_metrics = << >>
  /\ req = Idle
  /\ resp = NoResponse
  /\ prev = Submitted("none", 0, << >>, 0, FALSE)
  /\ fault = {}
  /\ runs = 0
  /\ OthersIdle

ReceiveFile ==
  /\ runs = 0
  /\ \E kind \in Kinds :
       \/ \E auth \in {"none", "invalid"} : Start(kind, auth, 0, {}, {})
       \/ \E hdr \in HeadersSent(kind) :
            Start(kind, "valid", hdr, Files(AllRowIds, MaxFileRows), BOOLEAN)

NextFile ==
  \/ ReceiveFile
  \/ Step1ReadAndProcess
  \/ Step3InsertStores
  \/ Step4TouchExisting
  \/ Step7UpsertMetrics
  \/ Step8Respond

SpecFile == InitFile /\ [][NextFile]_vars

\* the seeded database is one a sequence of requests reaches
SeedReached ==
  /\ stores = SeedStores
  /\ growth_metrics = SeedMetrics
  /\ absolute_metrics = << >>
  /\ upload_history = SeedHistory
  /\ req = Idle

-----------------------------------------------------------------------------
(* A growth cell from the file to the map: parsePercentage at the import,
   the growth_metrics column, convertToPercentage at the stores endpoint *)

MaxCellLen == 3

\* the characters of a growth cell: blank % , - . 0 1 5
CellChars == {32, 37, 44, 45, 46, 48, 49, 53}

Cells == UNION { [1..k -> CellChars] : k \in 0..MaxCellLen }

\* the decimal digits of a natural number k, written in w places
DecimalDigits(k, w) == [i \in 1..w |-> 48 + ((k \div (10 ^ (w - i))) % 10)]

\* the number of digits of a natural number
NumDigits(k) == Min({ w \in 1..9 : k < 10 ^ w })

\* String(n) of a JS number with at most five decimals: sign, integer digits,
\* and the decimals up to the last one that is not zero
numberToString(n) ==
  LET mag   == IF n < 0 THEN 0 - n ELSE n
      int   == mag \div Scale
      frac  == DecimalDigits(mag % Scale, 5)
      used  == { i \in 1..5 : frac[i] # 48 }
      last  == IF used = {} THEN 0 ELSE CHOOSE i \in used : \A j \in used : j <= i
      body  == DecimalDigits(int, NumDigits(int))
                 \o (IF last = 0 THEN << >> ELSE <<46>> \o SubSeq(frac, 1, last))
  IN  IF n < 0 THEN <<45>> \o body ELSE body

\* Math.round(x) of the number x = num / den: floor(x + 1/2)
MathRound(num, den) == (2 * num + den) \div (2 * den)

\* !value
Falsy(value) ==
  \/ value.type = "null"
  \/ value.type = "number" /\ value.n = 0
  \/ value.type = "string" /\ value.s = << >>

\* parseFloat(value) of a JS value: a number is converted to its string first
parseFloatOf(value) ==
  IF value.type = "number" THEN parseFloat(numberToString(value.n))
  ELSE parseFloat(value.s)

\* the literal 'null'
NullWord == <<110, 117, 108, 108>>

\* percentage units of a stored decimal fraction, or null
convertToPercentage(value) ==
  IF Falsy(value) \/ value = JsString(NullWord) THEN Null
  ELSE LET numericValue == parseFloatOf(value)
       IN  IF numericValue = Null THEN Null
           ELSE Num(MathRound(Val(numericValue), Scale \div (100 * 100))
                      * (Scale \div 100))

\* what the select of a growth_metrics column hands the endpoint for a stored
\* value: the column is declared a string in the endpoint and is written as
\* a JS number by the import; the client hands either one back
SelectedForms(stored) ==
  IF stored = Null THEN {JsNull}
  ELSE {JsNumber(Val(stored)), JsString(numberToString(Val(stored)))}

\* the import parses the cell and the metrics upsert stores the result
WriteCell ==
  /\ conv.pc = "cell"
  /\ conv' = [conv EXCEPT !.pc = "stored", !.stored = parsePercentage(conv.cell)]
  /\ UNCHANGED <<importVars, wizard, geo, views>>

\* the stores endpoint selects the metric
SelectMetric ==
  /\ conv.pc = "stored"
  /\ \E raw \in SelectedForms(conv.stored) :
       conv' = [conv EXCEPT !.pc = "selected", !.raw = raw]
  /\ UNCHANGED <<importVars, wizard, geo, views>>

\* the stores endpoint converts it for the map
ReadCell ==
  /\ conv.pc = "selected"
  /\ conv' = [conv EXCEPT !.pc = "read", !.result = convertToPercentage(conv.raw)]
  /\ UNCHANGED <<importVars, wizard, geo, views>>

InitCell ==
  /\ clock = 1
  /\ stores = {}
  /\ growth_metrics = << >>
  /\ absolute_metrics = << >>
  /\ upload_history = << >>
  /\ req = Idle
  /\ resp = NoResponse
  /\ prev = Submitted("none", 0, << >>, 0, FALSE)
  /\ fault = {}
  /\ runs = 0
  /\ wizard = WizardMounted
  /\ geo = GeoIdle
  /\ ViewsIdle
  /\ conv \in { [NoConversion EXCEPT !.pc = "cell", !.cell = c] : c \in Cells }

NextCell ==
  \/ WriteCell
  \/ SelectMetric
  \/ ReadCell

SpecCell == InitCell /\ [][NextCell]_vars

-----------------------------------------------------------------------------
(* The upload wizard (CSVUploadWizard): format detection on the header row
   of the chosen file, submission to one of the two import endpoints *)

MaxHeaders == 4

MaxPending == 1

\* growth patterns with the bare stem
GrowthPatternsCrec ==
  << <<99, 114, 101, 99>>,  \* 'crec'
     <<37>>,  \* '%'
     <<103, 114, 111, 119, 116, 104>>,  \* 'growth'
     <<99, 114, 101, 99, 105, 109, 105, 101, 110, 116, 111>> >>  \* 'crecimiento'

\* FORMAT_PATTERNS.growth.patterns
GrowthPatterns ==
  << <<99, 114, 101, 99, 37>>,  \* 'crec%'
     <<37>>,  \* '%'
     <<103, 114, 111, 119, 116, 104>>,  \* 'growth'
     <<99, 114, 101, 99, 105, 109, 105, 101, 110, 116, 111>> >>  \* 'crecimiento'

\* FORMAT_PATTERNS.absolute.patterns
AbsolutePatterns ==
  << <<118, 101, 110, 116, 97, 115>>,  \* 'ventas'
     <<111, 114, 100, 101, 110, 101, 115>>,  \* 'ordenes'
     <<116, 105, 99, 107, 101, 116, 115>> >>  \* 'tickets'

\* the header cells files are made of
HeaderPool ==
  << <<67, 114, 101, 99, 37>>,  \* 'Crec%'
     <<99, 114, 101, 99>>,  \* 'crec'
     <<37>>,  \* '%'
     <<71, 114, 111, 119, 116, 104>>,  \* 'Growth'
     <<67, 114, 101, 99, 105, 109, 105, 101, 110, 116, 111>>,  \* 'Crecimiento'
     <<32, 86, 101, 110, 116, 97, 115, 32>>,  \* ' Ventas '
     <<79, 114, 100, 101, 110, 101, 115>>,  \* 'Ordenes'
     <<84, 73, 67, 75, 69, 84, 83>>,  \* 'TICKETS'
     <<70, 111, 111>> >>  \* 'Foo'

\* the header rows of the files chosen in SpecDetect: any cells of the pool
HeaderRows == UNION { [1..k -> Range(HeaderPool)] : k \in 1..MaxHeaders }

\* the header rows chosen in SpecWizard: a growth file, an absolute file and
\* one of neither format
WizardRows ==
  { <<HeaderPool[9], HeaderPool[1], HeaderPool[4], HeaderPool[9]>>,
    <<HeaderPool[9], HeaderPool[6], HeaderPool[7], HeaderPool[8]>>,
    <<HeaderPool[9], HeaderPool[9], HeaderPool[2]>> }

\* headers.slice(-3).map(h => h.trim().toLowerCase())
lastThreeHeaders(headers) ==
  LET from == IF Len(headers) > 3 THEN Len(headers) - 2 ELSE 1
      last == SubSeq(headers, from, Len(headers))
  IN  [i \in 1..Len(last) |-> toLowerCase(trim(last[i]))]

\* the pairs the two nested forEach loops visit, in their order
loopPairs(headers, patterns) ==
  [k \in 1..(Len(headers) * Len(patterns)) |->
     <<headers[((k - 1) \div Len(patterns)) + 1],
       patterns[((k - 1) % Len(patterns)) + 1]>>]

\* the first components of a sequence of pairs
pushedHeaders(hits) == [k \in 1..Len(hits) |-> hits[k][1]]

\* the headers pushed to kpiColumns by one pair of loops: for each header,
\* for each pattern, the header when it includes the pattern; their number
\* is the score
pushedBy(headers, patterns) ==
  pushedHeaders(SelectSeq(loopPairs(headers, patterns),
                          LAMBDA x : includes(x[1], x[2])))

\* Math.min(score / 3, 1), times Scale
confidenceOf(score) == IF score >= 3 THEN Scale ELSE (score * Scale) \div 3

\* the three returns of detectFormat, with the absolute score tested first
returnAbsoluteFirst(headers, growth, absolute) ==
  IF Len(absolute) >= 2
  THEN [type |-> "absolute", confidence |-> confidenceOf(Len(absolute)),
        description |-> "Formato de Valores Absolutos",
        kpiColumns |-> growth \o absolute]
  ELSE IF Len(growth) >= 2
  THEN [type |-> "growth", confidence |-> confidenceOf(Len(growth)),
        description |-> "Formato de Crecimiento (Porcentajes)",
        kpiColumns |-> growth \o absolute]
  ELSE [type |-> "unknown", confidence |-> 0,
        description |-> "Formato no reconocido",
        kpiColumns |-> headers]

\* the three returns of detectFormat, for the headers pushed by the growth
\* loops and by the absolute loops
returnOf(headers, growth, absolute) ==
  IF Len(growth) >= 2
  THEN [type |-> "growth", confidence |-> confidenceOf(Len(growth)),
        description |-> "Formato de Crecimiento (Porcentajes)",
        kpiColumns |-> growth \o absolute]
  ELSE IF Len(absolute) >= 2
  THEN [type |-> "absolute", confidence |-> confidenceOf(Len(absolute)),
        description |-> "Formato de Valores Absolutos",
        kpiColumns |-> growth \o absolute]
  ELSE [type |-> "unknown", confidence |-> 0,
        description |-> "Formato no reconocido",
        kpiColumns |-> headers]

detectFormat(headers) ==
  returnOf(headers, pushedBy(headers, GrowthPatterns),
                    pushedBy(headers, AbsolutePatterns))

\* Papa.parse outcomes and the file-name test of handleFileSelect
SelectOutcomes == {"parsed", "notCsv", "parseError"}

\* the upload area is rendered
Step1Rendered == wizard.step = 1

\* handleFileSelect and the parse callback, for a file with this header row
handleFileSelect(headers, outcome) ==
  /\ wizard' =
       IF outcome = "notCsv"
       THEN [wizard EXCEPT !.error = "Por favor selecciona un archivo CSV valido",
                           !.loading = FALSE]
       ELSE IF outcome = "parseError"
       THEN [wizard EXCEPT !.error = "Error al leer el archivo",
                           !.loading = FALSE]
       ELSE [wizard EXCEPT !.error = "", !.loading = FALSE, !.step = 2,
                           !.hasData = TRUE,
                           !.headers = [i \in 1..Len(headers) |-> trim(headers[i])],
                           !.detectedFormat = detectFormat(lastThreeHeaders(headers))]
  /\ UNCHANGED <<importVars, conv, geo, views>>

\* the confirmation step is rendered
Step2Rendered ==
  wizard.step = 2 /\ wizard.hasData /\ wizard.detectedFormat # NoFormat

endpointOf(type) ==
  IF type = "growth" THEN "/api/import/growth-metrics"
  ELSE "/api/import/absolute-metrics"

\* handleSubmit up to the fetch; the button is disabled while loading and
\* for an unknown format
handleSubmit(session) ==
  /\ Step2Rendered
  /\ ~(wizard.loading \/ wizard.detectedFormat.type = "unknown")
  /\ IF wizard.detectedFormat = NoFormat \/ wizard.detectedFormat.type = "unknown"
     THEN wizard' = [wizard EXCEPT !.error = "No se pudo detectar el formato"]
     ELSE IF ~session
     THEN wizard' = [wizard EXCEPT !.error = "No hay sesion activa",
                                   !.loading = FALSE]
     ELSE /\ Len(wizard.pending) < MaxPending
          /\ wizard' = [wizard EXCEPT
                          !.error = "", !.loading = TRUE,
                          !.pending = Append(@, endpointOf(wizard.detectedFormat.type))]
  /\ UNCHANGED <<importVars, conv, geo, views>>

\* the statuses an import endpoint answers with; 0 is a fetch that throws
Statuses == {200, 400, 401, 500, 0}

\* response.ok
ok(status) == 200 <= status /\ status <= 299

RemoveAt(s, i) == SubSeq(s, 1, i - 1) \o SubSeq(s, i + 1, Len(s))

\* handleSubmit after the fetch: the response of a request in flight
handleResponse(i, status) ==
  /\ i \in 1..Len(wizard.pending)
  /\ wizard' = [wizard EXCEPT
                  !.pending = RemoveAt(@, i),
                  !.status = status,
                  !.loading = FALSE,
                  !.step = IF ok(status) THEN 3 ELSE @,
                  !.error = IF ok(status) THEN @ ELSE "Error al procesar el archivo"]
  /\ UNCHANGED <<importVars, conv, geo, views>>

\* the Atras button of step 2
Back ==
  /\ Step2Rendered
  /\ wizard' = [wizard EXCEPT !.step = 1]
  /\ UNCHANGED <<importVars, conv, geo, views>>

\* reset, the button of step 3
reset ==
  /\ wizard.step = 3
  /\ wizard' = [wizard EXCEPT !.step = 1, !.hasData = FALSE, !.headers = << >>,
                              !.detectedFormat = NoFormat, !.error = ""]
  /\ UNCHANGED <<importVars, conv, geo, views>>

InitWizard ==
  /\ clock = 1
  /\ stores = {}
  /\ growth_metrics = << >>
  /\ absolute_metrics = << >>
  /\ upload_history = << >>
  /\ req = Idle
  /\ resp = NoResponse
  /\ prev = Submitted("none", 0, << >>, 0, FALSE)
  /\ fault = {}
  /\ runs = 0
  /\ OthersIdle

\* the file selections of SpecDetect: any header row
SelectAnyFile ==
  /\ Step1Rendered
  /\ \E headers \in HeaderRows, outcome \in SelectOutcomes :
       handleFileSelect(headers, outcome)

NextDetect == SelectAnyFile

SpecDetect == InitWizard /\ [][NextDetect]_vars

SelectFile ==
  /\ Step1Rendered
  /\ \E headers \in WizardRows, outcome \in SelectOutcomes :
       handleFileSelect(headers, outcome)

Submit == \E session \in BOOLEAN : handleSubmit(session)

Respond ==
  \E i \in 1..MaxPending, status \in Statuses : handleResponse(i, status)

NextWizard ==
  \/ SelectFile
  \/ Submit
  \/ Respond
  \/ Back
  \/ reset

SpecWizard == InitWizard /\ [][NextWizard]_vars

-----------------------------------------------------------------------------
(* The geocoding run (POST /api/geocode): selection of the stores without
   coordinates, one external call per selected store, the write-back *)

MaxStores == 2

\* storesToGeocode.length <= 600
SmartThreshold == 600

\* batchSize = 100
DefaultBatchSize == 100

\* a number of tenths of a degree
Deg(t) == t * (Scale \div 10)

\* lat >= 14.5 && lat <= 32.7 && lon >= -118.4 && lon <= -86.7, any latitude
withinMexicoAnyLat(lat, lon) ==
  lon >= Deg(0 - 1184) /\ lon <= Deg(0 - 867)

\* lat >= 14.5 && lat <= 32.7 && lon >= -118.4 && lon <= -86.7
withinMexico(lat, lon) ==
  lat >= Deg(145) /\ lat <= Deg(327) /\ lon >= Deg(0 - 1184) /\ lon <= Deg(0 - 867)

Mexico == <<77, 233, 120, 105, 99, 111>>  \* 'México'

CommaBlank == <<44, 32>>

\* parts.join(', ')
join(parts, sep) ==
  LET j[n \in 0..Len(parts)] ==
        IF n = 0 THEN << >>
        ELSE IF n = 1 THEN parts[1]
        ELSE j[n - 1] \o sep \o parts[n]
  IN  j[Len(parts)]

\* buildFullAddress: the fields that are neither null nor empty, then
\* 'México'
buildFullAddress(store) ==
  join(SelectSeq(<<store.calle, store.colonia, store.ciudad, store.estado,
                   store.cp>>, LAMBDA p : p # << >>) \o <<Mexico>>,
       CommaBlank)

\* the address columns of a store: filled in, all empty, or blanks only in
\* calle (a null and an empty string are both << >>)
AddressFull ==
  [calle |-> <<65, 118, 32, 49>>, colonia |-> <<67, 101, 110, 116, 114, 111>>,
   ciudad |-> <<76, 101, 111, 110>>, estado |-> <<71, 84, 79>>,
   cp |-> <<51, 55, 48, 48, 48>>]

AddressEmpty ==
  [calle |-> << >>, colonia |-> << >>, ciudad |-> << >>, estado |-> << >>,
   cp |-> << >>]

\* the coordinates a store holds: none, or a pair an earlier run wrote
NoCoords == [lat |-> Null, lon |-> Null]

HeldCoords == [lat |-> Num(Deg(194)), lon |-> Num(Deg(0 - 991))]

\* the row of store id
StoreRow(id, address, coords) ==
  [id |-> id, calle |-> address.calle, colonia |-> address.colonia,
   ciudad |-> address.ciudad, estado |-> address.estado, cp |-> address.cp,
   lat |-> coords.lat, lon |-> coords.lon]

\* the rows a store can be: without coordinates, with or without an
\* address, or with the coordinates of an earlier run
RowKinds ==
  { <<AddressFull, NoCoords>>, <<AddressEmpty, NoCoords>>,
    <<AddressFull, HeldCoords>> }

\* the stores tables of n rows
StoreTables(n) ==
  { [id \in 1..n |-> StoreRow(id, k[id][1], k[id][2])] :
      k \in [1..n -> RowKinds] }

\* .or('lat.is.null,lon.is.null'), every store
selectAll(table) == table

\* .or('lat.is.null,lon.is.null')
selectWithoutCoords(table) ==
  SelectSeq(table, LAMBDA s : s.lat = Null \/ s.lon = Null)

\* storesToGeocode.slice(0, batchSize), for a batch size that is a count
slice(s, n) == SubSeq(s, 1, IF Len(s) < n THEN Len(s) ELSE n)

\* storesToGeocode.length < 600
smartAllStrict(n) == n < SmartThreshold

\* storesToGeocode.length <= 600
smartAll(n) == n <= SmartThreshold

Modes == {"smart", "all", "batch"}

\* processStores
processStoresOf(mode, batchSize, storesToGeocode) ==
  IF mode = "smart"
  THEN IF smartAll(Len(storesToGeocode)) THEN storesToGeocode
       ELSE slice(storesToGeocode, batchSize)
  ELSE IF mode = "batch" THEN slice(storesToGeocode, batchSize)
  ELSE storesToGeocode

\* what the geocoding service answers to one call: the fetch throws, a
\* status that is not 2xx, no feature, or a top feature with this centre
Answer(kind, lat, lon) == [kind |-> kind, lat |-> lat, lon |-> lon]

NoAnswer == Answer("none", 0, 0)

Centers ==
  { Answer("feature", Deg(194), Deg(0 - 991)),
    Answer("feature", Deg(145), Deg(0 - 1184)),
    Answer("feature", Deg(144), Deg(0 - 991)),
    Answer("feature", Deg(328), Deg(0 - 991)),
    Answer("feature", Deg(194), Deg(0 - 1185)),
    Answer("feature", Deg(194), Deg(0 - 866)) }

Answers ==
  { Answer("networkError", 0, 0), Answer("notOk", 0, 0),
    Answer("noFeatures", 0, 0) } \cup Centers

\* geocodeAddress, given the answer of the service
geocodeAddress(answer) ==
  IF answer.kind = "networkError"
  THEN [success |-> FALSE, lat |-> 0, lon |-> 0, error |-> "Network error"]
  ELSE IF answer.kind = "notOk"
  THEN [success |-> FALSE, lat |-> 0, lon |-> 0, error |-> "Mapbox API error"]
  ELSE IF answer.kind = "noFeatures"
  THEN [success |-> FALSE, lat |-> 0, lon |-> 0, error |-> "No results found"]
  ELSE IF withinMexico(answer.lat, answer.lon)
  THEN [success |-> TRUE, lat |-> answer.lat, lon |-> answer.lon, error |-> ""]
  ELSE [success |-> FALSE, lat |-> 0, lon |-> 0,
        error |-> "Location outside Mexico bounds"]

\* a GeocodeResult
Failure(store, error) ==
  [store_id |-> store.id, success |-> FALSE, lat |-> 0, lon |-> 0,
   error |-> error]

Success(store, lat, lon) ==
  [store_id |-> store.id, success |-> TRUE, lat |-> lat, lon |-> lon,
   error |-> ""]

NoGeoResponse ==
  [status |-> 0, kind |-> "none", processed |-> 0, successful |-> 0,
   failed |-> 0, remaining |-> 0, total |-> 0, willProcess |-> 0,
   results |-> << >>, errors |-> << >>, isComplete |-> FALSE]

\* successCount after an update that failed counts too
successCountAlways(successCount, updateError) == successCount + 1

\* successCount after the update of a store
successCountAfter(successCount, updateError) ==
  IF updateError THEN successCount ELSE successCount + 1

\* the store being processed
CurrentStore == geo.processStores[geo.i + 1]

\* a request answered before the loop
Answered(status, kind, total, willProcess) ==
  [NoGeoResponse EXCEPT !.status = status, !.kind = kind, !.total = total,
                        !.willProcess = willProcess]

\* a run that enters the loop whether or not dryRun is set
loopAlways(fresh, dryRun, found, chosen) ==
  [fresh EXCEPT !.storesToGeocode = found,
                !.processStores = chosen,
                !.resp = NoGeoResponse,
                !.pc = "loop"]

\* if (dryRun) return the sample; else go on to the loop
dryRunOrLoop(fresh, dryRun, found, chosen) ==
  IF dryRun
  THEN [fresh EXCEPT !.storesToGeocode = found,
                     !.processStores = chosen,
                     !.resp = Answered(200, "dryRun", Len(found), Len(chosen))]
  ELSE [fresh EXCEPT !.storesToGeocode = found,
                     !.processStores = chosen,
                     !.resp = NoGeoResponse,
                     !.pc = "loop"]

\* POST up to the loop: authorization, STEP 1, the mode, the dry run
StartRun(auth, mode, batchSize, dryRun, storesError) ==
  /\ LET found == selectWithoutCoords(geo.stores)
         chosen == processStoresOf(mode, batchSize, found)
         fresh == [geo EXCEPT !.auth = auth, !.mode = mode,
                              !.batchSize = batchSize, !.dryRun = dryRun,
                              !.storesToGeocode = << >>,
                              !.processStores = << >>, !.i = 0,
                              !.results = << >>, !.errors = << >>,
                              !.successCount = 0, !.calls = 0,
                              !.slept = FALSE, !.called = {},
                              !.before = geo.stores,
                              !.geocodeResult = geocodeAddress(Answer("noFeatures", 0, 0)),
                              !.answer = NoAnswer]
     IN  geo' =
           IF rejected(auth)
           THEN [fresh EXCEPT !.resp = Answered(401, "error", 0, 0)]
           ELSE IF storesError
           THEN [fresh EXCEPT !.resp = Answered(500, "error", 0, 0)]
           ELSE IF Len(found) = 0
           THEN [fresh EXCEPT !.resp = Answered(200, "complete", 0, 0)]
           ELSE dryRunOrLoop(fresh, dryRun, found, chosen)
  /\ UNCHANGED <<importVars, conv, wizard, views>>

\* the loop body up to the external call
BeginStore ==
  /\ geo.pc = "loop"
  /\ geo.i < Len(geo.processStores)
  /\ geo' =
       IF trim(buildFullAddress(CurrentStore)) = << >>
       THEN [geo EXCEPT !.results = Append(@, Failure(CurrentStore,
                                                      "No address data available")),
                        !.i = @ + 1]
       ELSE [geo EXCEPT !.pc = "calling", !.calls = @ + 1,
                        !.called = @ \cup {CurrentStore.id},
                        !.slept = FALSE]
  /\ UNCHANGED <<importVars, conv, wizard, views>>

\* the external call returns
MapboxAnswers ==
  /\ geo.pc = "calling"
  /\ \E answer \in Answers :
       LET geocodeResult == geocodeAddress(answer)
       IN  geo' =
             IF geocodeResult.success /\ geocodeResult.lat # 0
                                      /\ geocodeResult.lon # 0
             THEN [geo EXCEPT !.pc = "updating", !.answer = answer,
                              !.geocodeResult = geocodeResult]
             ELSE [geo EXCEPT !.pc = "sleeping", !.answer = answer,
                              !.geocodeResult = geocodeResult,
                              !.results = Append(@, Failure(CurrentStore,
                                                            geocodeResult.error))]
  /\ UNCHANGED <<importVars, conv, wizard, views>>

\* update({lat, lon}).eq('id', store.id)
updateCoords(table, id, lat, lon) ==
  [k \in 1..Len(table) |->
     IF table[k].id = id
     THEN [table[k] EXCEPT !.lat = Num(lat), !.lon = Num(lon)]
     ELSE table[k]]

UpdateOutcomes == {"updated", "updateError", "throws"}

\* the write-back: the update succeeds, returns an error, or throws
UpdateStore ==
  /\ geo.pc = "updating"
  /\ \E outcome \in UpdateOutcomes :
       geo' =
         IF outcome = "throws"
         THEN [geo EXCEPT !.pc = "loop", !.i = @ + 1, !.answer = NoAnswer,
                          !.results = Append(@, Failure(CurrentStore, "thrown")),
                          !.errors = Append(@, CurrentStore.id)]
         ELSE IF outcome = "updateError"
         THEN [geo EXCEPT !.pc = "sleeping",
                          !.successCount = successCountAfter(@, TRUE),
                          !.results = Append(@, Failure(CurrentStore,
                                                        "Database update failed"))]
         ELSE [geo EXCEPT !.pc = "sleeping",
                          !.stores = updateCoords(@, CurrentStore.id,
                                                  geo.geocodeResult.lat,
                                                  geo.geocodeResult.lon),
                          !.successCount = successCountAfter(@, FALSE),
                          !.results = Append(@, Success(CurrentStore,
                                                        geo.geocodeResult.lat,
                                                        geo.geocodeResult.lon))]
  /\ UNCHANGED <<importVars, conv, wizard, views>>

\* await sleep(100)
Sleep ==
  /\ geo.pc = "sleeping"
  /\ geo' = [geo EXCEPT !.pc = "loop", !.i = @ + 1, !.slept = TRUE,
                        !.answer = NoAnswer]
  /\ UNCHANGED <<importVars, conv, wizard, views>>

\* STEP 3: the summary
Summarize ==
  /\ geo.pc = "loop"
  /\ geo.i = Len(geo.processStores)
  /\ geo' = [geo EXCEPT
               !.pc = "idle",
               !.resp = [status |-> 200, kind |-> "summary",
                         processed |-> Len(geo.processStores),
                         successful |-> geo.successCount,
                         failed |-> Len(geo.processStores) - geo.successCount,
                         remaining |-> Len(geo.storesToGeocode)
                                         - Len(geo.processStores),
                         total |-> Len(geo.storesToGeocode),
                         willProcess |-> 0,
                         results |-> geo.results,
                         errors |-> firstErrors(geo.errors),
                         isComplete |-> Len(geo.storesToGeocode)
                                          - Len(geo.processStores) = 0]]
  /\ UNCHANGED <<importVars, conv, wizard, views>>

\* the run is stopped from outside (the platform ends the function)
Stop ==
  /\ geo.pc \in {"loop", "calling", "updating", "sleeping"}
  /\ geo' = [geo EXCEPT !.pc = "idle", !.resp = NoGeoResponse,
                        !.answer = NoAnswer]
  /\ UNCHANGED <<importVars, conv, wizard, views>>

ImportIdle ==
  /\ clock = 1
  /\ stores = {}
  /\ growth_metrics = << >>
  /\ absolute_metrics = << >>
  /\ upload_history = << >>
  /\ req = Idle
  /\ resp = NoResponse
  /\ prev = Submitted("none", 0, << >>, 0, FALSE)
  /\ fault = {}
  /\ runs = 0

\* SpecGeocode: runs, one after another, over a table of up to MaxStores stores
InitGeocode ==
  /\ ImportIdle
  /\ conv = NoConversion
  /\ wizard = WizardMounted
  /\ ViewsIdle
  /\ \E n \in 0..MaxStores :
       geo \in { [GeoIdle EXCEPT !.stores = t, !.before = t] :
                   t \in StoreTables(n) }

BatchSizes == {1}

\* no run is under way
NoRun == geo.pc = "idle"

Begin ==
  /\ NoRun
  /\ \E auth \in {"none", "invalid", "valid"}, mode \in Modes,
        batchSize \in BatchSizes,
        dryRun \in BOOLEAN, storesError \in BOOLEAN :
       StartRun(auth, mode, batchSize, dryRun, storesError)

NextGeocode ==
  \/ Begin
  \/ BeginStore
  \/ MapboxAnswers
  \/ UpdateStore
  \/ Sleep
  \/ Summarize
  \/ Stop

SpecGeocode == InitGeocode /\ [][NextGeocode]_vars

\* SpecSelect: the dry run over tables of many stores without coordinates
PendingCounts ==
  (0..MaxStores) \cup
  { DefaultBatchSize - 1, DefaultBatchSize, DefaultBatchSize + 1,
    SmartThreshold - 50, SmartThreshold - 1, SmartThreshold,
    SmartThreshold + 1, SmartThreshold + 50 }

SelectBatchSizes ==
  {0, 1, MaxStores, DefaultBatchSize, SmartThreshold, SmartThreshold + 100}

InitSelect ==
  /\ ImportIdle
  /\ conv = NoConversion
  /\ wizard = WizardMounted
  /\ ViewsIdle
  /\ \E n \in PendingCounts, held \in 0..1 :
       geo \in { [GeoIdle EXCEPT !.stores = t, !.before = t] :
                   t \in { [id \in 1..(n + held) |->
                              StoreRow(id, AddressFull,
                                       IF id > n THEN HeldCoords ELSE NoCoords)] } }

DryRun ==
  /\ NoRun
  /\ \E mode \in Modes, batchSize \in SelectBatchSizes :
       StartRun("valid", mode, batchSize, TRUE, FALSE)

NextSelect == DryRun

SpecSelect == InitSelect /\ [][NextSelect]_vars

-----------------------------------------------------------------------------
(* Column resolution on any header row: the header rows of at most MaxCols
   cells of the pool, sent to either import *)

MaxCols == 4

\* header cells: the store-name header (as written, and padded in upper
\* case), the store-code header, the other required headers and a header
\* that is a KPI of the absolute import and nothing to the growth import
ColumnPool ==
  << <<83, 117, 99, 117, 114, 115, 97, 108>>,        \* 'Sucursal'
     <<32, 83, 85, 67, 85, 82, 83, 65, 76, 32>>,     \* ' SUCURSAL '
     <<83, 65, 80>>,                                 \* 'SAP'
     <<70, 111, 114, 109, 97, 116, 111>>,            \* 'Formato'
     <<69, 115, 116, 97, 100, 111>>,                 \* 'Estado'
     <<86, 101, 110, 116, 97, 115>> >>               \* 'Ventas'

ColumnRows ==
  UNION { [1..n -> Range(ColumnPool)] : n \in 0..MaxCols }

\* a request's header row arrives at the import of kind
SendHeaders(kind, headers) ==
  /\ cols' = [ColsIdle EXCEPT !.pc = "sent", !.kind = kind,
                              !.headers = headers]
  /\ UNCHANGED <<importVars, conv, wizard, geo, read, pair, dash>>

\* const columnIndices = {...}; const missingColumns = requiredColumns.filter(...)
ResolveColumns ==
  /\ cols.pc = "sent"
  /\ LET ci == columnIndices(cols.kind, cols.headers)
     IN  cols' = [cols EXCEPT !.pc = "resolved", !.columnIndices = ci,
                              !.missing = missingColumns(ci)]
  /\ UNCHANGED <<importVars, conv, wizard, geo, read, pair, dash>>

NoHeadersSent == cols.pc = "idle"

Send ==
  /\ NoHeadersSent
  /\ \E kind \in {"growth", "absolute"}, headers \in ColumnRows :
       SendHeaders(kind, headers)

InitColumns ==
  /\ ImportIdle
  /\ conv = NoConversion
  /\ wizard = WizardMounted
  /\ geo = GeoIdle
  /\ ViewsIdle

NextColumns == Send \/ ResolveColumns

SpecColumns == InitColumns /\ [][NextColumns]_vars

-----------------------------------------------------------------------------
(* The stores endpoint: GET over a stores table and a growth_metrics table,
   with the estado filter and the period filter.  A period and a created_at
   are day numbers; a filter that is not given is '' or 0. *)

MaxMetrics == 2

\* a stored decimal fraction: 0.157
StoredKpi == Num(157 * (Scale \div 1000))

ReadStoreRow(id, estado) == [id |-> id, estado |-> estado]

\* stores tables: up to two stores, each in one of two states
ReadStoreTables ==
  UNION { { [k \in 1..n |-> ReadStoreRow(k, e[k])] : e \in [1..n -> {"E", "F"}] } :
            n \in 0..2 }

ReadMetricRow(store_id, period, created_at) ==
  [store_id |-> store_id, period |-> period, created_at |-> created_at,
   revenue_growth_pct |-> StoredKpi, orders_growth_pct |-> Null,
   ticket_growth_pct |-> StoredKpi, year_comparison |-> "2025 vs 2024"]

ReadMetricRows ==
  { ReadMetricRow(s, p, c) : s \in 1..2, p \in 1..2, c \in 1..2 }

\* growth_metrics tables: no two rows with the same store and period (the
\* key of the import's upsert)
ReadMetricTables ==
  UNION { { t \in [1..n -> ReadMetricRows] :
              \A i, j \in 1..n :
                i # j => <<t[i].store_id, t[i].period>> # <<t[j].store_id, t[j].period>> } :
            n \in 0..MaxMetrics }

\* if (estado) storeQuery = storeQuery.eq('estado', estado)
storeQuery(table, estado) ==
  SelectSeq(table, LAMBDA s : estado = "" \/ s.estado = estado)

\* .in('store_id', storeIds), and .eq('period', period) if (period)
metricsQuery(table, storeIds, period) ==
  SelectSeq(table, LAMBDA m : /\ m.store_id \in storeIds
                              /\ (period = 0 \/ m.period = period))

\* the orders in which the rows come back under
\* .order('created_at', { ascending: false }): rows of equal created_at in
\* any order
orderedByCreatedAtDesc(rows) ==
  { o \in [1..Len(rows) -> 1..Len(rows)] :
       /\ \A i, j \in 1..Len(rows) : i # j => o[i] # o[j]
       /\ \A i, j \in 1..Len(rows) :
            i < j => rows[o[i]].created_at >= rows[o[j]].created_at }

\* faulty variant: the metric that comes last
oldestMetric(metricsData, storeId) ==
  LET own == SelectSeq(metricsData, LAMBDA m : m.store_id = storeId)
  IN  IF own = << >> THEN << >> ELSE <<own[Len(own)]>>

\* storeMetricsMap.get(store.id): the store's metrics in the order they came
\* back, sorted by created_at descending (a stable sort), the first one
latestMetric(metricsData, storeId) ==
  LET own == SelectSeq(metricsData, LAMBDA m : m.store_id = storeId)
  IN  IF own = << >> THEN << >> ELSE <<own[1]>>

\* what the client hands back for a column in the form it uses
rawOf(stored, form) ==
  IF stored = Null THEN JsNull
  ELSE IF form = "number" THEN JsNumber(Val(stored))
  ELSE JsString(numberToString(Val(stored)))

\* STEP 6: one store joined with its metric (metric?.x)
transformedStore(store, metric, form) ==
  IF metric = << >>
  THEN [id |-> store.id, estado |-> store.estado,
        revenue_growth_pct |-> convertToPercentage(JsNull),
        orders_growth_pct |-> convertToPercentage(JsNull),
        ticket_growth_pct |-> convertToPercentage(JsNull),
        year_comparison |-> "", metric_period |-> 0]
  ELSE [id |-> store.id, estado |-> store.estado,
        revenue_growth_pct |->
          convertToPercentage(rawOf(metric[1].revenue_growth_pct, form)),
        orders_growth_pct |->
          convertToPercentage(rawOf(metric[1].orders_growth_pct, form)),
        ticket_growth_pct |->
          convertToPercentage(rawOf(metric[1].ticket_growth_pct, form)),
        year_comparison |-> metric[1].year_comparison,
        metric_period |-> metric[1].period]

ReadAnswered(status, rows) ==
  [status |-> status, stores |-> rows, total |-> Len(rows)]

\* GET /api/stores
GET(auth, estado, period, storesError, metricsError, form) ==
  LET storesData == storeQuery(read.stores, estado)
      storeIds == { storesData[k].id : k \in 1..Len(storesData) }
      found == metricsQuery(read.growth_metrics, storeIds, period)
      asked == [read EXCEPT !.auth = auth, !.estado = estado, !.period = period,
                            !.pc = "answered"]
  IN  /\ IF rejected(auth)
         THEN read' = [asked EXCEPT !.queried = {},
                                    !.resp = ReadAnswered(401, << >>)]
         ELSE IF storesError
         THEN read' = [asked EXCEPT !.queried = {"stores"},
                                    !.resp = ReadAnswered(500, << >>)]
         ELSE IF Len(storesData) = 0
         THEN read' = [asked EXCEPT !.queried = {"stores"},
                                    !.resp = ReadAnswered(200, << >>)]
         ELSE IF metricsError
         THEN read' = [asked EXCEPT !.queried = {"stores", "growth_metrics"},
                                    !.resp = ReadAnswered(500, << >>)]
         ELSE \E o \in orderedByCreatedAtDesc(found) :
                LET metricsData == [i \in 1..Len(found) |-> found[o[i]]]
                IN  read' =
                      [asked EXCEPT
                         !.queried = {"stores", "growth_metrics"},
                         !.resp = ReadAnswered(200,
                                    [k \in 1..Len(storesData) |->
                                       transformedStore(storesData[k],
                                         latestMetric(metricsData, storesData[k].id),
                                         form)])]
      /\ UNCHANGED <<importVars, conv, wizard, geo, cols, pair, dash>>

NoRead == read.pc = "idle"

Get ==
  /\ NoRead
  /\ \E auth \in {"none", "invalid", "valid"}, estado \in {"", "E", "F"},
        period \in 0..2, storesError \in BOOLEAN, metricsError \in BOOLEAN,
        form \in {"number", "string"} :
       GET(auth, estado, period, storesError, metricsError, form)

InitRead ==
  /\ ImportIdle
  /\ conv = NoConversion
  /\ wizard = WizardMounted
  /\ geo = GeoIdle
  /\ cols = ColsIdle
  /\ pair = PairIdle
  /\ dash = DashIdle
  /\ \E s \in ReadStoreTables, m \in ReadMetricTables :
       read = [ReadIdle EXCEPT !.stores = s, !.growth_metrics = m]

NextRead == Get

SpecRead == InitRead /\ [][NextRead]_vars

-----------------------------------------------------------------------------
(* Authorization: one request to each import, requests to the geocoding
   endpoint and one to the stores endpoint, each with no authorization
   header, with a token the auth provider rejects, or with a valid one *)

Authorizations == {"none", "invalid", "valid"}

\* an import of the one-row file <<1>> under its header row
AuthImport ==
  /\ runs < MaxRuns
  /\ \E kind \in Kinds, auth \in Authorizations :
       Start(kind, auth, IF kind = "growth" THEN 1 ELSE 3, {<<1>>}, {FALSE})

\* a geocoding run over every pending store
AuthGeocode ==
  /\ NoRun
  /\ \E auth \in Authorizations : StartRun(auth, "all", 1, FALSE, FALSE)

\* a read of every store
AuthRead ==
  /\ NoRead
  /\ \E auth \in Authorizations : GET(auth, "", 0, FALSE, FALSE, "string")

InitAuth ==
  /\ ImportIdle
  /\ conv = NoConversion
  /\ wizard = WizardMounted
  /\ cols = ColsIdle
  /\ pair = PairIdle
  /\ dash = DashIdle
  /\ geo = [GeoIdle EXCEPT !.stores = <<StoreRow(1, AddressFull, NoCoords)>>]
  /\ read = [ReadIdle EXCEPT !.stores = <<ReadStoreRow(1, "E")>>,
                             !.growth_metrics = <<ReadMetricRow(1, 1, 1)>>]

NextAuth ==
  \/ AuthImport
  \/ Step1ReadAndProcess
  \/ Step3InsertStores
  \/ Step4TouchExisting
  \/ Step7UpsertMetrics
  \/ Step8Respond
  \/ AuthGeocode
  \/ BeginStore
  \/ MapboxAnswers
  \/ UpdateStore
  \/ Sleep
  \/ Summarize
  \/ AuthRead

SpecAuth == InitAuth /\ [][NextAuth]_vars

-----------------------------------------------------------------------------
(* Two ingestions of the same account whose steps interleave: each reads
   the existing-store snapshot, processes its file, and inserts its new
   stores in one bulk insert, which the storage layer accepts or refuses *)

\* the files of the two ingestions: store A, store B, or both
PairFiles == {<<1>>, <<3>>, <<1, 3>>}

\* the request of ingestion i arrives and is accepted
PairReceive(i, kind, rows) ==
  /\ pair.p[i].pc = "idle"
  /\ pair' = [pair EXCEPT !.p[i] =
                [IngestionIdle EXCEPT !.pc = "step1", !.kind = kind,
                                      !.hdr = IF kind = "growth" THEN 1 ELSE 3,
                                      !.rows = rows]]
  /\ UNCHANGED <<importVars, conv, wizard, geo, cols, read, dash>>

\* STEP 1 and STEP 2 of ingestion i
PairSnapshot(i) ==
  /\ pair.p[i].pc = "step1"
  /\ \E m \in StoreMaps(pair.stores) :
       LET r == pair.p[i]
           acc == processRows(r.kind, r.hdr, ColumnIndicesOf[r.kind][r.hdr], m,
                              1, r.rows)
       IN  pair' = [pair EXCEPT !.p[i] =
                      [r EXCEPT !.pc = "step3", !.existingStoreMap = m,
                                !.csvSapCodes = acc.csvSapCodes,
                                !.newStores = acc.newStores]]
  /\ UNCHANGED <<importVars, conv, wizard, geo, cols, read, dash>>

\* STEP 3 of ingestion i: the bulk insert; an error ends the request
PairInsert(i) ==
  /\ pair.p[i].pc = "step3"
  /\ IF pair.p[i].newStores = << >>
     THEN pair' = [pair EXCEPT !.p[i].pc = "step4"]
     ELSE \E insertError \in BOOLEAN :
            IF insertError
            THEN pair' = [pair EXCEPT !.p[i].pc = "aborted",
                                      !.p[i].status = 500]
            ELSE pair' = [pair EXCEPT
                            !.stores = @ \cup Range(insertedRows(@, pair.p[i].newStores)),
                            !.p[i].pc = "step4"]
  /\ UNCHANGED <<importVars, conv, wizard, geo, cols, read, dash>>

\* the rest of ingestion i, up to its response
PairRespond(i) ==
  /\ pair.p[i].pc = "step4"
  /\ pair' = [pair EXCEPT !.p[i].pc = "responded", !.p[i].status = 200]
  /\ UNCHANGED <<importVars, conv, wizard, geo, cols, read, dash>>

InitPair ==
  /\ ImportIdle
  /\ conv = NoConversion
  /\ wizard = WizardMounted
  /\ geo = GeoIdle
  /\ cols = ColsIdle
  /\ read = ReadIdle
  /\ dash = DashIdle
  /\ \E tbl \in {{}, SeedStores} : pair = [PairIdle EXCEPT !.stores = tbl]

Receives ==
  \E i \in 1..2, kind \in Kinds, rows \in PairFiles : PairReceive(i, kind, rows)

Snapshots == \E i \in 1..2 : PairSnapshot(i)

Inserts == \E i \in 1..2 : PairInsert(i)

Responds == \E i \in 1..2 : PairRespond(i)

NextPair == Receives \/ Snapshots \/ Inserts \/ Responds

SpecPair == InitPair /\ [][NextPair]_vars

-----------------------------------------------------------------------------
(* Repeated batch-mode runs with batch size 1, one after another, as
   runAllBatches and an operator pressing the button again issue them;
   every run goes on to its summary and another run follows *)

BeginBatch ==
  /\ NoRun
  /\ StartRun("valid", "batch", 1, FALSE, FALSE)

NextBatches ==
  \/ BeginBatch
  \/ BeginStore
  \/ MapboxAnswers
  \/ UpdateStore
  \/ Sleep
  \/ Summarize

SpecBatches == InitGeocode /\ [][NextBatches]_vars /\ WF_vars(NextBatches)

-----------------------------------------------------------------------------
(* The map dashboard: MapDashboard with its loadStores guard and the
   TimelineFilter mounted in its main view.  A handler, the render it
   causes and the effects of that render run as one step; a fetch is in
   flight between the step that starts it and the step in which it
   completes.  dash.deps holds the dependencies of the last run of the
   load effect and dash.timeline those of the last run of the timeline's
   effect (empty while the timeline is not mounted); dash.last names the
   last handler that ran and dash.chosen the user's last choice in the
   timeline. *)

MaxPeriods == 2

MetricTypes == {"growth", "absolute"}

\* the lists of up to two periods an answer can carry, newest first
PeriodLists ==
  { << >> }
    \cup { <<p>> : p \in 1..MaxPeriods }
    \cup { l \in (1..MaxPeriods) \X (1..MaxPeriods) : l[1] > l[2] }

loadKey(metricType, selectedPeriod) == <<metricType, selectedPeriod>>

loadStores(d, metricType, selectedPeriod) ==
  IF \/ d.isLoadingRef
     \/ d.lastLoadParamsRef = <<loadKey(metricType, selectedPeriod)>>
  THEN d
  ELSE [d EXCEPT !.isLoadingRef = TRUE,
                 !.lastLoadParamsRef = <<loadKey(metricType, selectedPeriod)>>,
                 !.loading = TRUE,
                 !.error = FALSE,
                 !.inflight = Append(@, loadKey(metricType, selectedPeriod))]

\* which of the three views a render returns
viewOf(d) ==
  IF d.loading THEN "loading" ELSE IF d.error THEN "error" ELSE "main"

\* the timeline's effect: the newest period when none is selected
autoSelect(availablePeriods, selectedPeriod) ==
  IF selectedPeriod = Null /\ Len(availablePeriods) > 0
  THEN Num(availablePeriods[1])
  ELSE selectedPeriod

\* one render of d and the effects it schedules, the timeline's before
\* the dashboard's, both seeing the values of this render
rendered(d) ==
  LET now == <<d.metricType, d.selectedPeriod>>
      shown == <<d.availablePeriods, d.selectedPeriod>>
      mounted == viewOf(d) = "main"
      timelineRuns == mounted /\ d.timeline # <<shown>>
      loadRuns == d.deps # <<now>>
      loaded == IF loadRuns
                THEN loadStores(d, d.metricType, d.selectedPeriod)
                ELSE d
  IN [loaded EXCEPT
        !.selectedPeriod =
           IF timelineRuns
           THEN autoSelect(d.availablePeriods, d.selectedPeriod)
           ELSE @,
        !.deps = <<now>>,
        !.timeline = IF mounted THEN <<shown>> ELSE << >>]

\* renders follow one another until one changes nothing
RECURSIVE settled(_)
settled(d) ==
  LET e == rendered(d)
  IN IF e = d THEN d ELSE settled(e)

\* the fetch in flight completes: with an answer, or with a failure (no
\* session, a response that is not ok, a network error)
Completes ==
  /\ dash.inflight # << >>
  /\ \E answered \in BOOLEAN, periods \in PeriodLists :
       /\ ~answered => periods = << >>
       /\ dash' = settled(
            [dash EXCEPT
               !.stores = IF answered THEN <<Head(dash.inflight)>> ELSE @,
               !.availablePeriods = IF answered THEN periods ELSE @,
               !.error = IF answered THEN @ ELSE TRUE,
               !.loading = FALSE,
               !.isLoadingRef = FALSE,
               !.inflight = Tail(@),
               !.last = "completes"])
  /\ UNCHANGED <<importVars, conv, wizard, geo, cols, read, pair>>

\* a period button of the timeline
PickPeriod ==
  /\ viewOf(dash) = "main"
  /\ \E i \in 1..Len(dash.availablePeriods) :
       dash' = settled([dash EXCEPT
                          !.selectedPeriod = Num(dash.availablePeriods[i]),
                          !.last = "period",
                          !.chosen = "period"])
  /\ UNCHANGED <<importVars, conv, wizard, geo, cols, read, pair>>

\* the 'Datos Mas Recientes' button of the timeline
PickLatest ==
  /\ viewOf(dash) = "main"
  /\ dash' = settled([dash EXCEPT !.selectedPeriod = Null,
                                  !.last = "latest",
                                  !.chosen = "latest"])
  /\ UNCHANGED <<importVars, conv, wizard, geo, cols, read, pair>>

\* the metric type control of the sidebar
ChangeMetric ==
  /\ viewOf(dash) = "main"
  /\ \E m \in MetricTypes :
       dash' = settled([dash EXCEPT !.metricType = m, !.last = "metric"])
  /\ UNCHANGED <<importVars, conv, wizard, geo, cols, read, pair>>

\* the Reintentar button of the error view
Retry ==
  /\ viewOf(dash) = "error"
  /\ dash' = settled(loadStores([dash EXCEPT !.last = "retry"],
                                dash.metricType, dash.selectedPeriod))
  /\ UNCHANGED <<importVars, conv, wizard, geo, cols, read, pair>>

InitDash ==
  /\ ImportIdle
  /\ conv = NoConversion
  /\ wizard = WizardMounted
  /\ geo = GeoIdle
  /\ cols = ColsIdle
  /\ read = ReadIdle
  /\ pair = PairIdle
  /\ dash = settled(DashIdle)

NextDash ==
  \/ Completes
  \/ PickPeriod
  \/ PickLatest
  \/ ChangeMetric
  \/ Retry

SpecDash == InitDash /\ [][NextDash]_vars


-----------------------------------------------------------------------------
(* Properties of the import handlers *)

Keys(kind, tbl) == { ConflictKey(kind, tbl[i]) : i \in 1..Len(tbl) }

Holds(tbl, r) == \E i \in 1..Len(tbl) : tbl[i] = r

\* the request being handled repeats the one that finished just before it,
\* which made all of its writes
SameAsPrev ==
  /\ req.pc # "idle"
  /\ prev.completed
  /\ req.kind = prev.kind
  /\ req.hdr = prev.hdr
  /\ req.rows = prev.rows
  /\ req.currentDate = prev.date

CodesFound(r) == Range(r.csvSapCodes) \cap DOMAIN r.existingStoreMap

\* C2: STEP 4 of either import leaves first_seen of every store of the file
\* that already existed as it was and sets its last_seen to the upload date.
C2_ExistingStoreTouched ==
  [][ (req.pc = "step4" /\ req'.pc = "step7") =>
        \A s \in stores :
          s.suc_sap \in CodesFound(req) =>
            \E t \in stores' :
              /\ t.id = s.id
              /\ t.first_seen = s.first_seen
              /\ t.last_seen = req.currentDate ]_vars

C4_NothingDeleted ==
  [][ /\ StoreIds(stores) \subseteq StoreIds(stores')
      /\ Keys("growth", growth_metrics) \subseteq Keys("growth", growth_metrics')
      /\ Keys("absolute", absolute_metrics)
           \subseteq Keys("absolute", absolute_metrics')
      /\ \A i \in 1..Len(growth_metrics) :
           growth_metrics[i].period # req.currentDate =>
             Holds(growth_metrics', growth_metrics[i])
      /\ \A i \in 1..Len(absolute_metrics) :
           absolute_metrics[i].period # req.currentDate =>
             Holds(absolute_metrics', absolute_metrics[i]) ]_vars

\* a store has growth rows of two periods
C4_Witness ==
  /\ \E i, j \in 1..Len(growth_metrics) :
       /\ growth_metrics[i].store_id = growth_metrics[j].store_id
       /\ growth_metrics[i].period # growth_metrics[j].period
  /\ req.pc = "idle"
  /\ prev.completed

-----------------------------------------------------------------------------
(* Properties of the row loop, read from the cells of the submitted rows *)

\* the row loop of the request is over
Processed(r) == r.pc \in {"step3", "step4", "step7", "step8"}

\* the cells of the i-th data row (1-based)
FileRow(r, i) == RowTable[r.rows[i]]

\* the store code of the i-th data row, blanks trimmed
CodeOfRow(r, i) == trim(Cell(FileRow(r, i), r.columnIndices.suc_sap))

\* suc_sap, formato or estado is absent, empty or blank in the i-th data row
Deficient(r, i) ==
  \E f \in {"suc_sap", "formato", "estado"} :
    trim(Cell(FileRow(r, i), r.columnIndices[f])) = << >>

\* the i-th data row is kept as a store and metric record
Retained(r, i) ==
  \E n \in 1..Len(r.allProcessedRows) : r.allProcessedRows[n].rowIndex = i - 1

\* the entries of the error list that name the i-th data row
ErrorsNaming(r, i) == { n \in 1..Len(r.errors) : r.errors[n].row = i }

ReportedOnce(r, i, type) ==
  /\ Cardinality(ErrorsNaming(r, i)) = 1
  /\ \A n \in ErrorsNaming(r, i) : r.errors[n].type = type

\* every store record bound for the insert comes from a retained row
NewStoresFromRetained(r) ==
  \A n \in 1..Len(r.newStores) :
    \E i \in 1..Len(r.rows) :
      Retained(r, i) /\ CodeOfRow(r, i) = r.newStores[n].suc_sap

\* C5, as the specification has it: every data row whose suc_sap, formato or
\* estado is missing, a row with no cells included, is not retained and is
\* named by exactly one entry of the error list.
C5_EveryDeficientRowReported ==
  Processed(req) =>
    \A i \in 1..Len(req.rows) :
      Deficient(req, i) =>
        ~Retained(req, i) /\ ReportedOnce(req, i, "missing_fields")

\* C5, amended: every data row with at least one cell whose suc_sap, formato
\* or estado is missing is not retained, gives no store record, and is named
\* by exactly one entry of the error list, a missing-fields error with the
\* row's 1-based index; a row with no cells is skipped without any entry.
C5_DeficientRowWithCellsReported ==
  Processed(req) =>
    /\ NewStoresFromRetained(req)
    /\ \A i \in 1..Len(req.rows) :
         /\ (Deficient(req, i) /\ FileRow(req, i) # << >>) =>
              ~Retained(req, i) /\ ReportedOnce(req, i, "missing_fields")
         /\ FileRow(req, i) = << >> =>
              ~Retained(req, i) /\ ErrorsNaming(req, i) = {}

\* a file with a complete row followed by a row that has cells but no formato
C5_Witness ==
  /\ Processed(req)
  /\ \E i, j \in 1..Len(req.rows) :
       /\ i < j
       /\ Retained(req, i)
       /\ Deficient(req, j)
       /\ FileRow(req, j) # << >>
       /\ CodeOfRow(req, j) # << >>

\* C6, as the specification has it: of two rows of a file with the same
\* suc_sap the later one is not retained and draws a duplicate-code error.
C6_LaterRowOfACodeRejected ==
  Processed(req) =>
    \A i, j \in 1..Len(req.rows) :
      (i < j /\ CodeOfRow(req, i) # << >> /\ CodeOfRow(req, i) = CodeOfRow(req, j)) =>
        ~Retained(req, j) /\ ReportedOnce(req, j, "duplicate_sap")

\* an earlier row with the required fields and the same code
EarlierValid(r, j) ==
  \E i \in 1..(j - 1) : ~Deficient(r, i) /\ CodeOfRow(r, i) = CodeOfRow(r, j)

\* C6, amended: among the rows that have suc_sap, formato and estado, a row
\* is retained exactly when no earlier such row has its suc_sap, and it draws
\* exactly one duplicate-code error, naming its 1-based index, exactly when
\* one has; so the rows after a duplicate are still processed.
C6_FirstCompleteRowOfACodeRetained ==
  Processed(req) =>
    \A j \in 1..Len(req.rows) :
      /\ Retained(req, j) <=> (~Deficient(req, j) /\ ~EarlierValid(req, j))
      /\ (~Deficient(req, j) /\ EarlierValid(req, j)) =>
           ReportedOnce(req, j, "duplicate_sap")
      /\ (\E n \in ErrorsNaming(req, j) : req.errors[n].type = "duplicate_sap") =>
           (~Deficient(req, j) /\ EarlierValid(req, j))

\* a file with a code, the same code again, then another code
C6_Witness ==
  /\ Processed(req)
  /\ Len(req.rows) = 3
  /\ Retained(req, 1)
  /\ CodeOfRow(req, 2) = CodeOfRow(req, 1)
  /\ ~Deficient(req, 2)
  /\ ReportedOnce(req, 2, "duplicate_sap")
  /\ Retained(req, 3)

-----------------------------------------------------------------------------
(* Properties of the whole request *)

\* the header row and the endpoint of the request that has just arrived
ArrivedHdr == IF req'.pc = "idle" THEN prev'.hdr ELSE req'.hdr

ArrivedKind == IF req'.pc = "idle" THEN prev'.kind ELSE req'.kind

\* one of suc_sap, formato, estado, sucursal is in no header of the row
LacksRequiredColumn(kind, hdr) ==
  \E col \in {"suc_sap", "formato", "estado", "sucursal"} :
    ColumnIndicesOf[kind][hdr][col] = -1

\* C7: an authorised request whose header row lacks one of the columns
\* suc_sap, formato, estado, sucursal is answered 400 at once and writes
\* nothing: upload_history, stores and both metric tables stay as they were
\* and no later step of the request exists.
C7_MissingColumnRejectsFile ==
  [][ (runs' = runs + 1 /\ ArrivedHdr # 0 /\ LacksRequiredColumn(ArrivedKind, ArrivedHdr)) =>
        /\ req'.pc = "idle"
        /\ resp'.status = 400
        /\ ~resp'.success
        /\ tables' = tables ]_vars

\* a file without the sucursal column was sent to the seeded database
C7_Witness ==
  /\ runs = 1
  /\ prev.hdr = 7
  /\ resp.status = 400
  /\ req.pc = "idle"
  /\ stores = SeedStores

InsertedCodes(r) == { r.insertedStores[i].suc_sap : i \in 1..Len(r.insertedStores) }

\* C8: when an import answers, the codes it inserted and the codes it found
\* in the snapshot are disjoint, the former absent from and the latter present
\* in the snapshot, and together they are the accepted codes of the file; the
\* reported new_stores is the number of inserted codes and new_stores plus
\* existing_stores is stores_processed.
C8_ReconcilerPartition ==
  [][ (req.pc = "step8" /\ req'.pc = "idle") =>
        /\ InsertedCodes(req) \cap req.touched = {}
        /\ InsertedCodes(req) \cup req.touched = Range(req.csvSapCodes)
        /\ InsertedCodes(req) \cap DOMAIN req.existingStoreMap = {}
        /\ req.touched \subseteq DOMAIN req.existingStoreMap
        /\ Cardinality(Range(req.csvSapCodes)) = Len(req.csvSapCodes)
        /\ resp'.analytics.stores_processed = Len(req.csvSapCodes)
        /\ resp'.analytics.new_stores = Cardinality(InsertedCodes(req))
        /\ resp'.analytics.existing_stores = Cardinality(req.touched)
        /\ resp'.analytics.new_stores + resp'.analytics.existing_stores
             = resp'.analytics.stores_processed ]_vars

\* an import of a known and an unknown code has answered
C8_Witness ==
  /\ req.pc = "idle"
  /\ resp.success
  /\ resp.analytics.new_stores = 1
  /\ resp.analytics.existing_stores = 1
  /\ Cardinality(stores) = 2

\* C9: the step in which the bulk insert of new stores fails ends the request
\* with an error response and writes no store row; nothing of the request
\* runs after it, so stores and both metric tables stay as they were.
C9_InsertFailureAborts ==
  [][ "insert" \in fault' =>
        /\ req'.pc = "idle"
        /\ resp'.status = 500
        /\ ~resp'.success
        /\ stores' = stores
        /\ growth_metrics' = growth_metrics
        /\ absolute_metrics' = absolute_metrics ]_vars

\* the insert of a new store failed on the seeded database
C9_Witness ==
  /\ "insert" \in fault
  /\ resp.status = 500
  /\ stores = SeedStores
  /\ prev.rows # << >>

\* C10: an import whose bulk metric upsert failed answers with an error
\* response, not with success.
C10_UpsertFailureFailsRequest ==
  ("upsert" \in fault /\ req.pc = "idle") => (~resp.success /\ resp.status # 200)
-----------------------------------------------------------------------------
(* C11: the percentage round trip *)

\* the percentage a growth cell parses to (times Scale), or null
PercentageOf(cell) ==
  IF trim(cell) = << >> THEN Null
  ELSE parseFloat(trim(replaceFirst(replaceFirst(cell, 37, << >>), 44, <<46>>)))

Abs(n) == IF n < 0 THEN 0 - n ELSE n

\* C11: for every growth cell that parses to a percentage p, zero and
\* negative ones included, the import stores p/100 and the stores endpoint
\* returns p again, to two decimals, and never null for a stored value.
C11_WriteThenReadIsIdentity ==
  conv.pc = "read" /\ PercentageOf(conv.cell) # Null
    => /\ conv.stored # Null
       /\ Val(conv.stored) * 100 = Val(PercentageOf(conv.cell))
       /\ conv.result # Null
       /\ 100 * Abs(Val(conv.result) - Val(PercentageOf(conv.cell))) <= Scale

\* the round trip of the cells whose stored value is not handed back as the
\* number zero
C11_NonZeroRoundTrip ==
  conv.pc = "read" /\ PercentageOf(conv.cell) # Null
                   /\ conv.raw # JsNumber(0)
    => /\ conv.stored # Null
       /\ Val(conv.stored) * 100 = Val(PercentageOf(conv.cell))
       /\ conv.result # Null
       /\ 100 * Abs(Val(conv.result) - Val(PercentageOf(conv.cell))) <= Scale

-----------------------------------------------------------------------------
(* C12, C13: format detection *)

\* a file was parsed and its format detected
Detected == wizard.hasData /\ wizard.detectedFormat # NoFormat

\* the inspected headers: the last three header cells, lower-cased
InspectedOf(h, n, k) == [i \in 1..k |-> toLowerCase(h[n - k + i])]

Inspected ==
  InspectedOf(wizard.headers, Len(wizard.headers),
              IF Len(wizard.headers) < 3 THEN Len(wizard.headers) ELSE 3)

\* the number of matches of inspected headers against a keyword set: the
\* pairs of a header and a keyword it contains
MatchesOf(ins, keywords) ==
  Cardinality({ m \in (1..Len(ins)) \X keywords : includes(ins[m[1]], m[2]) })

\* the keyword sets of the wizard
KeywordsGrowth ==
  { <<99, 114, 101, 99, 37>>,  \* 'crec%'
    <<37>>,  \* '%'
    <<103, 114, 111, 119, 116, 104>>,  \* 'growth'
    <<99, 114, 101, 99, 105, 109, 105, 101, 110, 116, 111>> }  \* 'crecimiento'

KeywordsAbsolute ==
  { <<118, 101, 110, 116, 97, 115>>,  \* 'ventas'
    <<111, 114, 100, 101, 110, 101, 115>>,  \* 'ordenes'
    <<116, 105, 99, 107, 101, 116, 115>> }  \* 'tickets'

\* the growth keyword set with the bare stem 'crec'
KeywordsGrowthStem ==
  { <<37>>,  \* '%'
    <<99, 114, 101, 99>>,  \* 'crec'
    <<103, 114, 111, 119, 116, 104>>,  \* 'growth'
    <<99, 114, 101, 99, 105, 109, 105, 101, 110, 116, 111>> }  \* 'crecimiento'

Matches(keywords) == MatchesOf(Inspected, keywords)

\* what the scores g and a make of the detected format f
FollowsScores(f, ins, g, a) ==
  IF g >= 2
  THEN f.type = "growth"
       /\ f.confidence = (IF g >= 3 THEN Scale ELSE (g * Scale) \div 3)
  ELSE IF a >= 2
  THEN f.type = "absolute"
       /\ f.confidence = (IF a >= 3 THEN Scale ELSE (a * Scale) \div 3)
  ELSE f.type = "unknown" /\ f.confidence = 0 /\ f.kpiColumns = ins

\* C12: detectFormat over the inspected headers returns growth when the
\* growth score is at least 2, otherwise absolute when the absolute score is
\* at least 2, otherwise unknown; confidence is score/3 capped at 1 for
\* growth and absolute, and 0 with the inspected headers reported back for
\* unknown.
C12_TypeAndConfidenceFollowScores ==
  Detected =>
    FollowsScores(wizard.detectedFormat, Inspected,
                  Matches(KeywordsGrowth), Matches(KeywordsAbsolute))

\* both scores qualify and the file is detected as growth; and one of each
\* other outcome
C12_Witness ==
  /\ Detected
  /\ Matches(KeywordsGrowth) >= 2 /\ Matches(KeywordsAbsolute) >= 2
  /\ wizard.detectedFormat.type = "growth"
  /\ Len(wizard.headers) > 3

\* what detection reports of the scores g and a: the type, the confidence
\* and the number of headers pushed to kpiColumns
ReportedOf(f, g, a) ==
  /\ f.type = (IF g >= 2 THEN "growth" ELSE IF a >= 2 THEN "absolute"
               ELSE "unknown")
  /\ f.type = "growth" => f.confidence = (IF g >= 3 THEN Scale ELSE (g * Scale) \div 3)
  /\ f.type # "unknown" => Len(f.kpiColumns) = g + a

ReportedAs(g, a) == ReportedOf(wizard.detectedFormat, g, a)

\* C13: the growth keyword set is exactly {%, crec, growth, crecimiento} and
\* the absolute set {ventas, ordenes, tickets}: every inspected header that
\* contains 'crec' counts as a growth match.
C13_KeywordSetsWithStem ==
  Detected =>
    ReportedAs(Matches(KeywordsGrowthStem), Matches(KeywordsAbsolute))

\* C13 as amended: the growth keyword set is exactly {crec%, %, growth,
\* crecimiento} and the absolute set {ventas, ordenes, tickets}: a header
\* that contains 'crec' counts only through 'crec%', '%' or 'crecimiento'.
C13_KeywordSets ==
  Detected =>
    ReportedAs(Matches(KeywordsGrowth), Matches(KeywordsAbsolute))

\* two inspected headers hold the bare stem 'crec' and nothing else of the
\* growth set: detection reports unknown
C13_Witness ==
  /\ Detected
  /\ Matches({<<99, 114, 101, 99>>}) >= 2
  /\ Matches(KeywordsGrowth) = 0
  /\ wizard.detectedFormat.type = "unknown"

-----------------------------------------------------------------------------
(* C14: the wizard and an unknown format *)

\* a step of the wizard that sends a request to an import endpoint
SendsRequest == Len(wizard'.pending) > Len(wizard.pending)

\* a step of the wizard that reaches the success step
ReachesSuccess == wizard'.step = 3 /\ wizard.step # 3

\* C14: a detected format of unknown blocks submission: handleSubmit sends
\* no request while the detected type is unknown, the wizard is never at the
\* success step (step 3) while the detected type is unknown, and step 3 is
\* reached only after an import response with a 2xx status.
C14_UnknownBlocksSubmission ==
  [][ /\ SendsRequest => wizard.detectedFormat.type \in {"growth", "absolute"}
      /\ wizard'.step = 3 => wizard'.detectedFormat.type # "unknown"
      /\ ReachesSuccess => 200 <= wizard'.status /\ wizard'.status <= 299
    ]_vars

\* the two parts of C14 that no interleaving breaks: no request is sent
\* while the type is unknown, and step 3 follows a 2xx response
C14_RequestsAndResponses ==
  [][ /\ SendsRequest => wizard.detectedFormat.type \in {"growth", "absolute"}
      /\ ReachesSuccess => /\ 200 <= wizard'.status /\ wizard'.status <= 299
                           /\ Len(wizard'.pending) < Len(wizard.pending)
    ]_vars

-----------------------------------------------------------------------------
(* C15 - C20: the geocoding run *)

\* the stores of a table that lack a coordinate
Lacking(table) ==
  { k \in 1..Len(table) : table[k].lat = Null \/ table[k].lon = Null }

Smaller(a, b) == IF a < b THEN a ELSE b

\* the number of stores a run selects of n stores lacking coordinates
SelectedOf(mode, batchSize, n) ==
  IF mode = "all" THEN n
  ELSE IF mode = "batch" THEN Smaller(batchSize, n)
  ELSE IF n <= 600 THEN n
  ELSE Smaller(batchSize, n)

NoAddress(store) ==
  /\ store.calle = << >> /\ store.colonia = << >> /\ store.ciudad = << >>
  /\ store.estado = << >> /\ store.cp = << >>

\* the entries of results for a store
EntriesOf(id) ==
  { j \in 1..Len(geo.results) : geo.results[j].store_id = id }

\* C16: a selected store whose address fields are all empty never triggers
\* a call to the geocoding service and is recorded in results as a failure
\* with the reason that no address data is available.
C16_EmptyAddressNeverCalled ==
  \A k \in 1..Len(geo.processStores) :
    NoAddress(geo.processStores[k]) =>
      /\ geo.processStores[k].id \notin geo.called
      /\ k <= geo.i =>
           \E j \in EntriesOf(geo.processStores[k].id) :
             /\ ~geo.results[j].success
             /\ geo.results[j].error = "No address data available"

\* a coordinate pair inside 14.5 <= lat <= 32.7 and -118.4 <= lon <= -86.7
InsideBox(lat, lon) ==
  /\ 145 * Scale <= 10 * lat /\ 10 * lat <= 327 * Scale
  /\ 0 - 1184 * Scale <= 10 * lon /\ 10 * lon <= 0 - 867 * Scale

\* the coordinates a step writes lie inside the box
WritesInsideBox ==
  \A k \in 1..Len(geo.stores) :
    geo'.stores[k] # geo.stores[k] =>
      /\ geo'.stores[k].lat # Null /\ geo'.stores[k].lon # Null
      /\ InsideBox(Val(geo'.stores[k].lat), Val(geo'.stores[k].lon))

\* the step in which the geocoding service answers
ServiceAnswers == geo.pc = "calling" /\ geo'.pc # "calling" /\ geo'.pc # "idle"

\* the stores of the failures recorded in this run hold no coordinates
FailuresHoldNothing ==
  \A j \in 1..Len(geo.results) :
    ~geo.results[j].success =>
      /\ geo.stores[geo.results[j].store_id].lat = Null
      /\ geo.stores[geo.results[j].store_id].lon = Null

\* C17: every coordinate pair the run writes lies inside the bounding box;
\* a top-ranked result outside the box is recorded as that store's failure
\* and the store's lat/lon stay null.
C17_OnlyCoordinatesInsideBoxWritten ==
  [][ /\ WritesInsideBox
      /\ FailuresHoldNothing
      /\ (ServiceAnswers /\ geo'.answer.kind = "feature"
            /\ ~InsideBox(geo'.answer.lat, geo'.answer.lon)) =>
           /\ geo'.stores = geo.stores
           /\ geo'.pc = "sleeping"
           /\ Len(geo'.results) = Len(geo.results) + 1
           /\ geo'.results[Len(geo'.results)].store_id = CurrentStore.id
           /\ ~geo'.results[Len(geo'.results)].success
    ]_vars

\* the service's top result lies outside the box and the store's failure is
\* recorded
C17_Witness ==
  /\ geo.pc = "sleeping"
  /\ geo.answer.kind = "feature"
  /\ ~InsideBox(geo.answer.lat, geo.answer.lon)
  /\ ~geo.results[Len(geo.results)].success
  /\ geo.stores[geo.results[Len(geo.results)].store_id].lat = Null

\* the stores whose coordinates this run wrote
WrittenInRun ==
  { k \in 1..Len(geo.stores) :
      geo.before[k].lat = Null /\ geo.stores[k].lat # Null }

\* C18: a failure for one store never aborts the batch: every selected
\* store gets exactly one entry in results, processed is the number
\* selected, successful + failed = processed, remaining = pending -
\* processed, and successful is the number of stores whose coordinates were
\* written.
C18_EveryStoreOneEntry ==
  /\ geo.resp.kind = "summary" =>
       /\ Len(geo.resp.results) = Len(geo.processStores)
       /\ \A k \in 1..Len(geo.processStores) :
            geo.resp.results[k].store_id = geo.processStores[k].id
       /\ geo.resp.processed = Len(geo.processStores)
       /\ geo.resp.successful + geo.resp.failed = geo.resp.processed
       /\ geo.resp.successful >= 0 /\ geo.resp.failed >= 0
       /\ geo.resp.remaining =
            Cardinality(Lacking(geo.before)) - geo.resp.processed
       /\ geo.resp.successful = Cardinality(WrittenInRun)
       /\ geo.resp.successful =
            Cardinality({ j \in 1..Len(geo.resp.results) :
                            geo.resp.results[j].success })
  /\ geo.resp.kind = "error" => geo.results = << >>

\* a run of two stores ends with one store written and the other failed by
\* a database update error
C18_Witness ==
  /\ geo.resp.kind = "summary"
  /\ geo.resp.successful = 1 /\ geo.resp.failed >= 1
  /\ \E j \in 1..Len(geo.resp.results) :
       geo.resp.results[j].error = "Database update failed"

\* a step that issues an external call
IssuesCall == geo.pc = "loop" /\ geo'.pc = "calling"

\* C19: within one run at most one external call is outstanding at any
\* time, and between any two consecutive external calls the inter-call
\* delay step is executed, whatever the outcome of the earlier call.
C19_DelayBetweenCalls ==
  [][ /\ geo'.pc = "calling" => geo.pc # "calling"
      /\ IssuesCall /\ geo.calls >= 1 => geo.slept
    ]_vars

\* the delay between consecutive calls whose earlier one did not end in a
\* thrown exception
C19_DelayUnlessThrown ==
  [][ IssuesCall /\ geo.calls >= 1
        /\ geo.results[Len(geo.results)].error # "thrown" => geo.slept
    ]_vars

\* the successes recorded in this run are in the table
SuccessesApplied ==
  \A j \in 1..Len(geo.results) :
    geo.results[j].success =>
      /\ geo.stores[geo.results[j].store_id].lat = Num(geo.results[j].lat)
      /\ geo.stores[geo.results[j].store_id].lon = Num(geo.results[j].lon)

\* C20: each success is written to its store before the next store is
\* processed, so a run that stops after k stores leaves its successes
\* applied; a later run selects only stores whose lat or lon is null, so a
\* store holding coordinates is never geocoded again nor overwritten.
C20_WrittenOnceNeverOverwritten ==
  [][ /\ SuccessesApplied
      /\ geo.pc = "idle" =>
           \A k \in 1..Len(geo'.storesToGeocode) :
             geo'.storesToGeocode[k].lat = Null \/ geo'.storesToGeocode[k].lon = Null
      /\ IssuesCall =>
           geo.stores[CurrentStore.id].lat = Null
             \/ geo.stores[CurrentStore.id].lon = Null
      /\ \A k \in 1..Len(geo.stores) :
           geo.stores[k].lat # Null /\ geo.stores[k].lon # Null =>
             geo'.stores[k] = geo.stores[k]
    ]_vars

\* a later run is under way over a table in which an earlier run, stopped
\* before its end, wrote a store's coordinates
C20_Witness ==
  /\ geo.pc = "calling"
  /\ \E k \in 1..Len(geo.before) :
       /\ geo.before[k].lat = Num(Deg(145))
       /\ \A j \in 1..Len(geo.processStores) : geo.processStores[j].id # k

-----------------------------------------------------------------------------
(* C21 - C30 *)

\* C21: a geocoding request with dryRun set makes zero calls to the
\* external geocoding service and zero writes to the store table, in every
\* mode and for every number of pending stores.
C21_DryRunCallsAndWritesNothing ==
  [][ geo'.dryRun =>
        /\ geo'.stores = geo.stores
        /\ geo'.calls = 0 /\ geo'.called = {}
        /\ geo'.pc = "idle"
    ]_vars

\* a dry run has answered with stores it would process, over a table an
\* earlier run has written to
C21_Witness ==
  /\ geo.dryRun /\ geo.resp.kind = "dryRun"
  /\ geo.resp.willProcess >= 1
  /\ \E k \in 1..Len(geo.stores) : geo.stores[k].lat = Num(Deg(145))

\* the response of an import carries the first 10 errors and their number
ImportErrorsAndTotal ==
  req.pc = "step8" /\ resp' # resp /\ resp'.status = 200 =>
    /\ Len(resp'.errors) <= 10
    /\ resp'.errors = SubSeq(req.errors, 1, Len(resp'.errors))
    /\ Len(resp'.errors) = 10 \/ Len(resp'.errors) = Len(req.errors)
    /\ resp'.totalErrors = Len(req.errors)

\* the summary of a geocoding run carries the first 10 errors and their
\* number
GeocodeErrorsAndTotal ==
  geo.pc = "loop" /\ geo'.resp.kind = "summary" =>
    /\ Len(geo'.resp.errors) <= 10
    /\ geo'.resp.errors = SubSeq(geo.errors, 1, Len(geo'.resp.errors))
    /\ Len(geo'.resp.errors) = 10 \/ Len(geo'.resp.errors) = Len(geo.errors)
    /\ geo'.resp.failed = Len(geo.errors)

\* C22: every endpoint's response carries at most the first 10 entries of
\* the run's error list, in the order the errors occurred, together with
\* the total number of errors of the run (growth import, absolute import
\* and geocoding alike).
C22_FirstTenErrorsAndTotal ==
  [][ImportErrorsAndTotal /\ GeocodeErrorsAndTotal]_vars

\* the import endpoints' half of C22
C22_ImportErrorsAndTotal == [][ImportErrorsAndTotal]_vars

\* C26: whenever a geocoding response reports isComplete = true, every
\* store that was pending at the start of that run holds non-null lat and
\* lon afterwards.
C26_CompleteMeansAllGeocoded ==
  geo.resp.isComplete =>
    \A k \in Lacking(geo.before) :
      geo.stores[k].lat # Null /\ geo.stores[k].lon # Null

\* a response that reports isComplete = true after a run without failure
\* leaves every store that was pending with coordinates
C26_CompleteWithoutFailure ==
  geo.resp.isComplete /\ geo.resp.failed = 0 =>
    \A k \in Lacking(geo.before) :
      geo.stores[k].lat # Null /\ geo.stores[k].lon # Null

\* the terms searched for a target field of an import
TermsOf(kind, field) ==
  CASE field = "formato" -> TermsFormato
    [] field = "suc_sap" -> TermsSucSap
    [] field = "sucursal" -> TermsSucursal
    [] field = "estado" -> TermsEstado
    [] field = "revenue_growth" -> TermsRevenueGrowth
    [] field = "orders_growth" -> TermsOrdersGrowth
    [] field = "ticket_growth" -> TermsTicketGrowth
    [] field = "ventas" -> TermsVentas
    [] field = "ordenes" -> TermsOrdenes
    [] field = "tickets" -> TermsTickets

\* header number i (from 0) contains, whatever its case, one of the terms
Contains(headers, i, terms) ==
  \E t \in terms : includes(toLowerCase(headers[i + 1]), t)

\* index is the lowest index of a header containing one of the terms, or
\* -1 when there is none
LowestContaining(headers, index, terms) ==
  IF index = -1
  THEN \A i \in 0..(Len(headers) - 1) : ~Contains(headers, i, terms)
  ELSE /\ index \in 0..(Len(headers) - 1)
       /\ Contains(headers, index, terms)
       /\ \A i \in 0..(index - 1) : ~Contains(headers, i, terms)

\* the header row has a header containing 'sucursal' before every header
\* containing 'suc' or 'sap'
NameBeforeCode(headers) ==
  \E i \in 0..(Len(headers) - 1) :
    /\ Contains(headers, i, TermsSucursal)
    /\ \A j \in 0..(i - 1) : ~Contains(headers, j, TermsSucSap)

\* C28: column resolution searches each target field independently and
\* returns the lowest header index containing, case-insensitively, any of
\* its search terms, or -1; so two target fields can resolve to the same
\* column: with a header containing "sucursal" before the store-code
\* header, suc_sap and sucursal resolve to the same index and the
\* required-columns check still passes.
C28_LowestIndexPerField ==
  cols.pc = "resolved" =>
    /\ \A field \in DOMAIN cols.columnIndices :
         LowestContaining(cols.headers, cols.columnIndices[field],
                          TermsOf(cols.kind, field))
    /\ cols.missing =
         { field \in {"suc_sap", "formato", "estado", "sucursal"} :
             cols.columnIndices[field] = -1 }
    /\ NameBeforeCode(cols.headers) =>
         /\ cols.columnIndices.suc_sap = cols.columnIndices.sucursal
         /\ cols.columnIndices.suc_sap # -1
         /\ "suc_sap" \notin cols.missing /\ "sucursal" \notin cols.missing

\* 'Sucursal', 'SAP', 'Formato', 'Estado': the store code and the store
\* name are both read from column 0 and no required column is missing
C28_Witness ==
  /\ cols.pc = "resolved"
  /\ Len(cols.headers) = 4
  /\ Contains(cols.headers, 0, TermsSucursal)
  /\ Contains(cols.headers, 1, {<<115, 97, 112>>})
  /\ cols.columnIndices.suc_sap = 0 /\ cols.columnIndices.sucursal = 0
  /\ cols.missing = {}

\* the stores of the table that match the store filter of the request
Matching ==
  { k \in 1..Len(read.stores) :
      read.estado = "" \/ read.stores[k].estado = read.estado }

\* the growth metrics of a store, of the requested period when one is given
MetricsFor(id) ==
  { i \in 1..Len(read.growth_metrics) :
      /\ read.growth_metrics[i].store_id = id
      /\ (read.period = 0 \/ read.growth_metrics[i].period = read.period) }

\* the rows of the response for a store
RowsFor(id) ==
  { k \in 1..Len(read.resp.stores) : read.resp.stores[k].id = id }

\* C24: the stores read endpoint returns every store matching the store
\* filters exactly once, joined with that store's most recent growth metric
\* (greatest created_at among the store's metrics, of the requested period
\* when one is given); a store with no such metric is still returned, with
\* null KPI values.
C24_StoresWithLatestMetric ==
  read.resp.status = 200 =>
    /\ \A k \in 1..Len(read.resp.stores) :
         read.resp.stores[k].id \in { read.stores[j].id : j \in Matching }
    /\ \A j \in Matching :
         /\ Cardinality(RowsFor(read.stores[j].id)) = 1
         /\ \A k \in RowsFor(read.stores[j].id) :
              LET row == read.resp.stores[k]
                  own == MetricsFor(row.id)
              IN  IF own = {}
                  THEN /\ row.revenue_growth_pct = Null
                       /\ row.orders_growth_pct = Null
                       /\ row.ticket_growth_pct = Null
                       /\ row.metric_period = 0
                  ELSE \E i \in own :
                         /\ \A h \in own :
                              read.growth_metrics[h].created_at
                                <= read.growth_metrics[i].created_at
                         /\ row.metric_period = read.growth_metrics[i].period
                         /\ row.year_comparison =
                              read.growth_metrics[i].year_comparison
                         /\ row.revenue_growth_pct = Num(157 * (Scale \div 10))

\* no period is asked for; a store has an older and a newer metric, the
\* older one later in the table, and another store has none
C24_Witness ==
  /\ read.resp.status = 200 /\ read.period = 0
  /\ Len(read.resp.stores) = 2
  /\ Len(read.growth_metrics) = 2
  /\ read.growth_metrics[1].store_id = 1 /\ read.growth_metrics[2].store_id = 1
  /\ read.growth_metrics[1].created_at = 2 /\ read.growth_metrics[2].created_at = 1
  /\ read.resp.stores[1].metric_period = read.growth_metrics[1].period
  /\ read.resp.stores[2].revenue_growth_pct = Null

\* the tables and the external service as a request leaves them untouched
NothingTouched ==
  /\ tables' = tables
  /\ geo'.stores = geo.stores
  /\ read'.stores = read.stores /\ read'.growth_metrics = read.growth_metrics
  /\ ~(geo.pc # "calling" /\ geo'.pc = "calling")

\* an import request arrives without valid authorization
ImportUnauthorized ==
  /\ req.pc = "idle" /\ runs' = runs + 1
  /\ (IF req'.pc = "idle" THEN prev'.auth ELSE req'.auth) # "valid"

\* a geocoding request arrives without valid authorization
GeocodeUnauthorized ==
  geo.pc = "idle" /\ geo' # geo /\ geo'.auth # "valid"

\* a read request arrives without valid authorization
ReadUnauthorized ==
  read.pc = "idle" /\ read' # read /\ read'.auth # "valid"

\* C23: for every endpoint (growth import, absolute import, geocoding,
\* stores read), a request without an authorization header or with a token
\* the auth provider rejects is answered 401 before any processing: no
\* table is read or written and no external geocoding call is made.
C23_UnauthorizedAnswered401 ==
  [][ /\ ImportUnauthorized =>
           /\ resp'.status = 401
           /\ req' = req
           /\ NothingTouched
      /\ GeocodeUnauthorized =>
           /\ geo'.resp.status = 401
           /\ geo'.pc = "idle"
           /\ geo'.storesToGeocode = << >> /\ geo'.processStores = << >>
           /\ geo'.calls = 0
           /\ NothingTouched
      /\ ReadUnauthorized =>
           /\ read'.resp.status = 401
           /\ read'.queried = {}
           /\ read'.resp.stores = << >>
           /\ NothingTouched
    ]_vars

\* the three kinds of endpoint have each refused a request, one for its
\* missing header and another for its rejected token, while a valid import
\* has filled the tables
C23_Witness ==
  /\ resp.status = 401 /\ prev.auth = "invalid"
  /\ geo.resp.status = 401 /\ geo.auth = "none"
  /\ read.resp.status = 401 /\ read.auth = "invalid"
  /\ stores # {}

\* the codes ingestion i puts in its bulk insert
InsertCodes(i) ==
  { pair.p[i].newStores[k].suc_sap : k \in 1..Len(pair.p[i].newStores) }

\* ingestion i has read its snapshot
PastSnapshot(i) ==
  pair.p[i].pc \in {"step3", "step4", "aborted", "responded"}

\* ingestion i has made its bulk insert, or was refused it
PastInsert(i) == pair.p[i].pc \in {"step4", "aborted", "responded"}

\* the rows of the table that hold a code
RowsHolding(c) == { s \in pair.stores : s.suc_sap = c }

\* the ingestions whose bulk insert was accepted
Inserted == { i \in 1..2 : pair.p[i].pc \in {"step4", "responded"} }

\* C25: two ingestions may interleave so that both read the existing-store
\* snapshot before either inserts; a code absent from the table is then
\* classified as new by both and appears in both bulk inserts.  The only
\* outcomes are those the storage layer allows: the second insert fails and
\* that ingestion aborts, or two rows for the same code exist.
C25_SnapshotRace ==
  /\ \A i \in 1..2 :
       PastSnapshot(i) =>
         InsertCodes(i) =
           { c \in Range(pair.p[i].csvSapCodes) :
               c \notin DOMAIN pair.p[i].existingStoreMap }
  /\ \A c \in InsertCodes(1) \cap InsertCodes(2) :
       PastSnapshot(1) /\ PastSnapshot(2) /\ PastInsert(1) /\ PastInsert(2) =>
         /\ Cardinality(RowsHolding(c)) = Cardinality(Inserted)
         /\ \/ \E i \in 1..2 : pair.p[i].pc = "aborted" /\ pair.p[i].status = 500
            \/ Cardinality(RowsHolding(c)) = 2

\* both ingestions read a snapshot without store A, both inserted it, and
\* the table holds two rows for it
C25_Witness ==
  /\ PastInsert(1) /\ PastInsert(2)
  /\ Inserted = {1, 2}
  /\ \E c \in InsertCodes(1) \cap InsertCodes(2) :
       Cardinality(RowsHolding(c)) = 2

\* store k lacks a coordinate
PendingStore(k) ==
  /\ k <= Len(geo.stores)
  /\ (geo.stores[k].lat = Null \/ geo.stores[k].lon = Null)

\* store k is among the stores the run under way has selected
SelectedStore(k) ==
  /\ geo.pc # "idle"
  /\ \E j \in 1..Len(geo.processStores) : geo.processStores[j].id = k

\* C27: under repeated batch-mode runs, each taking the first batchSize
\* pending stores, every store lacking coordinates is eventually selected
\* for a geocoding attempt, even when some stores fail on every attempt.
C27_EveryPendingStoreSelected ==
  \A k \in 1..MaxStores : PendingStore(k) ~> SelectedStore(k)

\* the first pending store of the table is selected by the next run
C27_FirstPendingStoreSelected ==
  \A k \in 1..MaxStores :
    (PendingStore(k) /\ \A j \in 1..(k - 1) : ~PendingStore(j))
      ~> (SelectedStore(k) \/ ~PendingStore(k))

\* the parameters the dashboard has selected
CurrentKey == loadKey(dash.metricType, dash.selectedPeriod)

\* C29: after a load of stores has failed, pressing the retry control
\* starts a new fetch with the current metric type and period; the load
\* guard allows at most one fetch in flight and never leaves the dashboard
\* unable to load the currently selected parameters.
C29_RetryFetchesCurrentParameters ==
  /\ Len(dash.inflight) <= 1
  /\ dash.last = "retry" => dash.inflight = <<CurrentKey>>

\* at most one fetch is in flight
C29_OneFetchInFlight == Len(dash.inflight) <= 1

\* a dashboard in its error view whose retry control starts nothing
C29_RetryIgnored ==
  /\ dash.last = "retry"
  /\ viewOf(dash) = "error"
  /\ dash.inflight = << >>
  /\ dash.lastLoadParamsRef = <<CurrentKey>>

\* C30: after the user chooses the 'latest data' option of the timeline
\* while periods are available, the selected period stays null until the
\* user picks a period; the newest period is selected automatically only
\* while nothing has been chosen yet.
C30_LatestStaysSelected ==
  (dash.chosen = "latest" /\ Len(dash.availablePeriods) > 0)
    => dash.selectedPeriod = Null

====
